---- MODULE Spec2Model ----
(***************************************************************************)
(* The render-target pipeline and update scheduler of map-shine           *)
(* (src/scripts/module.js): the procedural stages, their dirty flags and  *)
(* throttles, the mask compositors and the per-target sprite maps.        *)
(*                                                                         *)
(* One ticker tick runs every registered frame callback once, in          *)
(* registration order.  Camera pans, window resizes, configuration        *)
(* applications and tile changes happen between ticks.                    *)
(***************************************************************************)
EXTENDS Integers, Sequences, FiniteSets, TLC

VARIABLES
    libwrapper,   \* game.modules.get('libwrapper')?.active
    failing,      \* the shader classes whose constructor throws when called
    screen,       \* canvas.app.renderer.screen
    config,       \* OVERLAY_CONFIG, the fields the stages read
    status,       \* systemStatus._state, the states of its entries
    pattern,      \* the ProceduralPatternLayer and its NoiseTextureManager
    iriPattern,   \* the IridescencePatternLayer and its NoiseTextureManager
    cloud,        \* the CloudShadowsLayer
    dust,         \* the DustMotesLayer
    heat,         \* the HeatDistortionLayer, its NoiseTextureManager and filter
    metallic,     \* the MetallicShineLayer
    tokenMask,    \* game.mapShine.tokenMaskManager
    iridescence,  \* the IridescenceLayer
    background,   \* the BackgroundLayer
    scene,        \* the scene background and canvas.tiles.placeables
    targets,      \* game.mapShine.effectTargetManager.targets
    ready,        \* how far the canvasReady hook has come
    frame,        \* frame callbacks the pattern layers have been sent so far
    lastOp,       \* the operation that produced the current state
    app,          \* canvas.app.ticker, Hooks, window listeners; the canvas cycle
    window,       \* pattern renders of the frames since the last invalidation
    groundGlow,   \* the GroundGlowLayer and the illuminationbuffer API it needs
    profile,      \* game.mapShine.profileManager and the game.settings it reads
    loadingScreen,  \* game.mapShine.loadingScreen and its element in the document
    tokens,         \* canvas.tokens.placeables
    screenEffects,  \* ScreenEffectsManager and canvas.stage.filters
    inflight        \* the refresh and updateEffectTargets calls waiting at an await

vars == <<libwrapper, failing, screen, config, status, pattern, iriPattern,
          cloud, dust, heat, metallic, tokenMask, iridescence, background, scene,
          targets, ready, frame, lastOp, app, window, groundGlow, profile,
          loadingScreen, tokens, screenEffects, inflight>>

NULL == "null"

-----------------------------------------------------------------------------
(* Bounds of the model. *)

MaxFreq == 3        \* largest baseShine.animation.updateFrequency applied
MaxFrames == 8      \* frame callbacks of one stage that are explored
MaxFailing == 1     \* shader classes that fail to compile in one session
MaxStageFrames == 3 \* frames explored where the update frequency is not varied
MaxTargetFrames == 4 \* frames explored where tiles come and go
MaxCycles == 2      \* scenes drawn after the first one
MaxCycleFrames == 2 \* frames explored in each canvas cycle

(* Program constants. *)

DefaultUpdateFrequency == 2     \* OVERLAY_CONFIG.baseShine.animation.updateFrequency
InitialUpdateFrequency == 1     \* ProceduralPatternLayer.updateFrequency
TokenUpdateFrequency == 3       \* DynamicTokenMaskManager.updateFrequency
DefaultShadowIntensity == 1    \* OVERLAY_CONFIG.cloudShadows.shadowIntensity, in halves
DefaultBlurStrength == 8       \* the blur of a new PIXI.BlurFilter()
DefaultHeatIntensity == 64      \* OVERLAY_CONFIG.heatDistortion.intensity, in 1/64 of 0.0005

Shaders == {"ShinePatternFilter", "NoisePatternFilter", "IridescenceFilter",
            "CloudShadowsFilter", "DustMotesFilter", "MetallicShineFilter",
            "HeatDistortionFilter"}

\* new X() in a try block: the filter object, or null when the constructor throws
NewFilter(shader, fails) == IF shader \in fails THEN NULL ELSE "filter"

ScreenSizes == {[w |-> 2, h |-> 2], [w |-> 3, h |-> 2]}
InitialScreen == [w |-> 2, h |-> 2]

DeltaTimes == {1}

-----------------------------------------------------------------------------
(* OVERLAY_CONFIG *)

DefaultConfig ==
    [ enabled |-> TRUE,
      baseShine |-> [ enabled |-> TRUE,
                      animation |-> [updateFrequency |-> DefaultUpdateFrequency],
                      noise |-> [enabled |-> TRUE] ],
      iridescence |-> [ enabled |-> TRUE, speed |-> 0, noise |-> [speed |-> 0] ],
      cloudShadows |-> [ enabled |-> TRUE, maskBlur |-> 0,
                         shadowIntensity |-> DefaultShadowIntensity ],
      dustMotes |-> [ enabled |-> TRUE, maskBlur |-> 0 ],
      groundGlow |-> [ enabled |-> FALSE ],
      heatDistortion |-> [ enabled |-> TRUE, intensity |-> DefaultHeatIntensity ] ]

-----------------------------------------------------------------------------
(* NoiseTextureManager *)

NoiseConstructor(scr) ==
    [ filter |-> NULL, size |-> scr, written |-> FALSE, didRender |-> FALSE ]

\* updateFromConfig: every configuration carries the noise section, so the
\* filter is compiled on the first call that finds none
NoiseUpdateFromConfig(n, fails) ==
    IF n.filter = NULL
    THEN [n EXCEPT !.filter = NewFilter("NoisePatternFilter", fails)]
    ELSE n


\* update(deltaTime, renderer)
NoiseUpdate(n, deltaTime) ==
    IF n.filter = NULL THEN n
    ELSE [n EXCEPT !.written = TRUE, !.didRender = TRUE]

NoiseResize(n, scr) == [n EXCEPT !.size = scr]

-----------------------------------------------------------------------------
(* ProceduralPatternLayer: the shine pattern stage.  didRender and the      *)
(* noise manager's didRender record what the last _onAnimate call wrote.    *)

Max(a, b) == IF a >= b THEN a ELSE b

RenderTexture(scr) == [size |-> scr, written |-> FALSE]

\* constructor, then _draw and _setupFilters
PatternDraw(scr, cfg, fails) ==
    [ renderTexture |-> RenderTexture(scr),
      noiseTextureManager |-> NoiseConstructor(scr),
      shinePatternFilter |-> NewFilter("ShinePatternFilter", fails),
      u_noise_enabled |-> cfg.baseShine.noise.enabled,
      u_noiseMap |-> "EMPTY",
      u_time |-> 0,
      _frameCount |-> 0,
      _needsUpdate |-> TRUE,
      updateFrequency |-> InitialUpdateFrequency,
      didRender |-> FALSE ]

PatternUpdateFromConfig(p, cfg, fails) ==
    IF p.shinePatternFilter = NULL THEN p
    ELSE LET newFrequency == cfg.baseShine.animation.updateFrequency
         IN [p EXCEPT !.noiseTextureManager = NoiseUpdateFromConfig(@, fails),
                      !.updateFrequency = IF @ # newFrequency
                                          THEN Max(0, newFrequency) ELSE @,
                      !.u_noise_enabled = cfg.baseShine.noise.enabled,
                      !._needsUpdate = TRUE]

PatternOnPan(p) == [p EXCEPT !._needsUpdate = TRUE]

IsNthFrame(updateFrequency, frameCount) ==
    updateFrequency > 0 /\ frameCount % updateFrequency = 0

\* schedulers that look at the throttle alone, or at the dirty flag alone
ShouldUpdateThrottleOnly(needsUpdate, isNthFrame) == isNthFrame

ShouldUpdateDirtyOnly(needsUpdate, isNthFrame) == needsUpdate

ShouldUpdate(needsUpdate, isNthFrame) == needsUpdate \/ isNthFrame

\* a callback that advances the frame counter before it looks for the filter
PatternOnAnimateCountsFirst(p, deltaTime) ==
    LET q == [p EXCEPT !.didRender = FALSE, !.noiseTextureManager.didRender = FALSE,
                       !._frameCount = @ + 1]
    IN IF p.shinePatternFilter = NULL THEN q
       ELSE LET r == [q EXCEPT !.u_time = @ + deltaTime]
            IN IF ~ShouldUpdate(p._needsUpdate,
                                IsNthFrame(p.updateFrequency, q._frameCount))
               THEN r
               ELSE [r EXCEPT !.noiseTextureManager = NoiseUpdate(@, deltaTime),
                              !.u_noiseMap = "noise",
                              !.renderTexture.written = TRUE,
                              !.didRender = TRUE,
                              !._needsUpdate = FALSE]

PatternOnAnimate(p, deltaTime) ==
    LET q == [p EXCEPT !.didRender = FALSE, !.noiseTextureManager.didRender = FALSE]
    IN IF p.shinePatternFilter = NULL THEN q
       ELSE LET frameCount == p._frameCount + 1
                r == [q EXCEPT !._frameCount = frameCount, !.u_time = @ + deltaTime]
            IN IF ~ShouldUpdate(p._needsUpdate, IsNthFrame(p.updateFrequency, frameCount))
               THEN r
               ELSE [r EXCEPT !.noiseTextureManager = NoiseUpdate(@, deltaTime),
                              !.u_noiseMap = "noise",
                              !.renderTexture.written = TRUE,
                              !.didRender = TRUE,
                              !._needsUpdate = FALSE]

-----------------------------------------------------------------------------
(* DynamicTokenMaskManager *)

NoTokenMask ==
    [ created |-> FALSE, renderTexture |-> RenderTexture(InitialScreen),
      _frameCount |-> 0, _needsUpdate |-> FALSE,
      updateFrequency |-> TokenUpdateFrequency, didRender |-> FALSE,
      tokenSprites |-> << >>, spawned |-> 0, destroyed |-> {} ]

\* canvas.tokens.placeables in their order
TokenOrder == <<"K1", "K2">>

\* the tokens renderMask does not skip
Drawable(placeables) ==
    { id \in DOMAIN placeables :
        placeables[id].visible /\ placeables[id].valid /\ ~placeables[id].hidden }

\* a renderMask that makes a new sprite for every token it draws
RenderMaskNewSprites(t) ==
    LET current == Drawable(tokens)
        number(id) == t.spawned + Cardinality({ i \in 1..Len(TokenOrder) :
                          /\ TokenOrder[i] \in current
                          /\ \E j \in i..Len(TokenOrder) : TokenOrder[j] = id })
    IN  [t EXCEPT !.tokenSprites = [id \in current |-> number(id)],
                  !.spawned = @ + Cardinality(current),
                  !.destroyed = @ \cup {t.tokenSprites[id] : id \in DOMAIN t.tokenSprites},
                  !.renderTexture.written = TRUE,
                  !.didRender = TRUE]

\* renderMask(): a sprite is made for every drawable token that has none (the
\* sprites are numbered as they are made), the sprites of the other ids are
\* destroyed and deleted, and the token container is rendered into the mask
\* texture
RenderMask(t) ==
    LET current == Drawable(tokens)
        fresh == current \ DOMAIN t.tokenSprites
        number(id) == t.spawned + Cardinality({ i \in 1..Len(TokenOrder) :
                          /\ TokenOrder[i] \in fresh
                          /\ \E j \in i..Len(TokenOrder) : TokenOrder[j] = id })
    IN  [t EXCEPT !.tokenSprites = [id \in current |->
                                      IF id \in fresh THEN number(id) ELSE @[id]],
                  !.spawned = @ + Cardinality(fresh),
                  !.destroyed = @ \cup {t.tokenSprites[id] :
                                            id \in DOMAIN t.tokenSprites \ current},
                  !.renderTexture.written = TRUE,
                  !.didRender = TRUE]

TokenMaskConstructor(scr) ==
    RenderMask([ created |-> TRUE, renderTexture |-> RenderTexture(scr),
                 _frameCount |-> 0, _needsUpdate |-> TRUE,
                 updateFrequency |-> TokenUpdateFrequency, didRender |-> FALSE,
                 tokenSprites |-> << >>, spawned |-> 0, destroyed |-> {} ])

RequestUpdate(t) == IF t.created THEN [t EXCEPT !._needsUpdate = TRUE] ELSE t

\* _boundOnAnimate, on the ticker from the constructor on
TokenOnAnimate(t) ==
    IF ~t.created THEN t
    ELSE LET frameCount == t._frameCount + 1
             isNthFrame == frameCount % t.updateFrequency = 0
             r == [t EXCEPT !._frameCount = frameCount, !.didRender = FALSE]
         IN IF t._needsUpdate \/ isNthFrame
            THEN [RenderMask(r) EXCEPT !._needsUpdate = FALSE]
            ELSE r

-----------------------------------------------------------------------------
(* IridescencePatternLayer *)

IriPatternDraw(scr, cfg, fails) ==
    [ renderTexture |-> RenderTexture(scr),
      distortionNoiseManager |-> NoiseUpdateFromConfig(NoiseConstructor(scr), fails),
      iridescenceFilter |-> NewFilter("IridescenceFilter", fails),
      u_time |-> 0,
      _needsUpdate |-> TRUE,
      didRender |-> FALSE ]

IriPatternUpdateFromConfig(p, cfg, fails) ==
    LET q == [p EXCEPT !.distortionNoiseManager = NoiseUpdateFromConfig(@, fails)]
    IN IF p.iridescenceFilter = NULL THEN q
       ELSE [q EXCEPT !._needsUpdate = TRUE]

IriPatternOnPan(p) == [p EXCEPT !._needsUpdate = TRUE]

\* _onAnimate reads OVERLAY_CONFIG.iridescence itself
IriPatternOnAnimate(p, deltaTime, cfg) ==
    LET q == [p EXCEPT !.didRender = FALSE, !.distortionNoiseManager.didRender = FALSE]
    IN IF p.iridescenceFilter = NULL THEN q
       ELSE LET iConfig == cfg.iridescence
                shouldAnimate == iConfig.enabled
                                 /\ (iConfig.speed # 0 \/ iConfig.noise.speed # 0)
                r == [q EXCEPT !.u_time = @ + deltaTime]
            IN IF ~p._needsUpdate /\ ~shouldAnimate THEN r
               ELSE [r EXCEPT !.distortionNoiseManager = NoiseUpdate(@, deltaTime),
                              !.renderTexture.written = TRUE,
                              !.didRender = TRUE,
                              !._needsUpdate = FALSE]

-----------------------------------------------------------------------------
(* Targets: TextureAutoLoader and the sprites the layers keep per target id *)

TileIds == {"T1", "T2"}

\* what lies next to a base texture: the suffixed files found (maps) and those
\* of them that foundry.canvas.loadTexture fails to load (broken)
Assets ==
    { [src |-> "plain", maps |-> {}, broken |-> {}],
      [src |-> "metal", maps |-> {"specular", "iridescence"}, broken |-> {}],
      [src |-> "yard", maps |-> {"outdoors", "dust", "heat"}, broken |-> {}],
      [src |-> "bad", maps |-> {"outdoors", "dust"}, broken |-> {"outdoors", "dust"}],
      [src |-> "worn", maps |-> {"specular", "iridescence", "outdoors"},
       broken |-> {"specular", "iridescence"}] }

NoAsset == [src |-> "", maps |-> {}, broken |-> {}]

EMPTY == [valid |-> FALSE, src |-> ""]

\* _processSceneBackground and _processTile
TargetOf(asset) ==
    [baseTexturePath |-> asset.src, maps |-> asset.maps, broken |-> asset.broken]

NoTarget == TargetOf(NoAsset)

NoTargets == [background |-> NoTarget, tiles |-> << >>]

\* discoverAllTargets: a tile is a target when one of its maps was found
DiscoverAllTargets(sc) ==
    [ background |-> TargetOf(sc.background),
      tiles |-> [id \in {t \in DOMAIN sc.tiles : sc.tiles[t].maps # {}}
                    |-> TargetOf(sc.tiles[id])] ]

\* new Map([['background', targets.background], ...targets.tiles.entries()])
AllTargets(tg) ==
    [id \in {"background"} \cup DOMAIN tg.tiles |->
        IF id = "background" THEN tg.background ELSE tg.tiles[id]]

\* the ids the loop of an updateEffectTargets does not skip
ValidTargetIds(tg, key) ==
    {id \in DOMAIN AllTargets(tg) :
        IF key = "base" THEN AllTargets(tg)[id].baseTexturePath # ""
        ELSE key \in AllTargets(tg)[id].maps}

\* _updateSpriteTransform / _updateSpriteTexture: the texture is loaded when
\* the path differs from the sprite's, and is EMPTY when loading throws
LoadedTexture(texture, data, key) ==
    IF data.baseTexturePath # texture.src
    THEN IF key \in data.broken THEN EMPTY
         ELSE [valid |-> TRUE, src |-> data.baseTexturePath]
    ELSE texture

\* the sprite map after the two loops of updateEffectTargets: sprites of valid
\* ids are kept or created, all others are destroyed and deleted
UpdateSprites(sprites, tg, key) ==
    [id \in ValidTargetIds(tg, key) |->
        [texture |-> LoadedTexture(IF id \in DOMAIN sprites THEN sprites[id].texture
                                   ELSE EMPTY,
                                   AllTargets(tg)[id], key)]]

HasActive(sprites) == \E id \in DOMAIN sprites : sprites[id].texture.valid

-----------------------------------------------------------------------------
(* CloudShadowsLayer: mask compositor of the outdoors masks and its consumer *)

CloudDraw(scr, fails) ==
    [ cloudFilter |-> NewFilter("CloudShadowsFilter", fails),
      visible |-> TRUE,
      maskSprites |-> << >>,
      maskBlurEnabled |-> TRUE,
      maskBlur |-> DefaultBlurStrength,
      u_shadowIntensity |-> 0,
      combinedMaskTexture |-> RenderTexture(scr),
      blurredMaskTexture |-> RenderTexture(scr),
      uOutdoorsMask |-> "EMPTY",
      u_time |-> 0,
      _needsMaskUpdate |-> TRUE,
      didRender |-> FALSE,
      didBlur |-> FALSE ]

CloudOnPan(c) == [c EXCEPT !._needsMaskUpdate = TRUE]

\* a cloud layer that leaves the mask uniform alone when it has nothing to draw
CloudOnAnimateKeepsMask(c, deltaTime) ==
    LET q == [c EXCEPT !.didRender = FALSE, !.didBlur = FALSE]
    IN IF ~c.visible \/ c.cloudFilter = NULL \/ ~HasActive(c.maskSprites)
       THEN q
       ELSE LET r == IF c._needsMaskUpdate
                     THEN [q EXCEPT !.combinedMaskTexture.written = TRUE,
                                    !.didRender = TRUE,
                                    !.blurredMaskTexture.written =
                                        IF c.maskBlurEnabled THEN TRUE ELSE @,
                                    !.didBlur = c.maskBlurEnabled,
                                    !._needsMaskUpdate = FALSE]
                     ELSE q
            IN [r EXCEPT !.uOutdoorsMask = IF c.maskBlurEnabled THEN "blurred"
                                           ELSE "combined",
                         !.u_time = @ + deltaTime]

\* a cloud layer that runs the blur pass whether or not the blur is enabled
CloudOnAnimateAlwaysBlurs(c, deltaTime) ==
    LET q == [c EXCEPT !.didRender = FALSE, !.didBlur = FALSE]
    IN IF ~c.visible \/ c.cloudFilter = NULL \/ ~HasActive(c.maskSprites)
       THEN IF c.cloudFilter # NULL THEN [q EXCEPT !.uOutdoorsMask = "EMPTY"] ELSE q
       ELSE LET r == IF c._needsMaskUpdate
                     THEN [q EXCEPT !.combinedMaskTexture.written = TRUE,
                                    !.didRender = TRUE,
                                    !.blurredMaskTexture.written = TRUE,
                                    !.didBlur = TRUE,
                                    !._needsMaskUpdate = FALSE]
                     ELSE q
            IN [r EXCEPT !.uOutdoorsMask = IF c.maskBlurEnabled THEN "blurred"
                                           ELSE "combined",
                         !.u_time = @ + deltaTime]

CloudOnAnimate(c, deltaTime) ==
    LET q == [c EXCEPT !.didRender = FALSE, !.didBlur = FALSE]
    IN IF ~c.visible \/ c.cloudFilter = NULL \/ ~HasActive(c.maskSprites)
       THEN IF c.cloudFilter # NULL THEN [q EXCEPT !.uOutdoorsMask = "EMPTY"] ELSE q
       ELSE LET r == IF c._needsMaskUpdate
                     THEN [q EXCEPT !.combinedMaskTexture.written = TRUE,
                                    !.didRender = TRUE,
                                    !.blurredMaskTexture.written =
                                        IF c.maskBlurEnabled THEN TRUE ELSE @,
                                    !.didBlur = c.maskBlurEnabled,
                                    !._needsMaskUpdate = FALSE]
                     ELSE q
            IN [r EXCEPT !.uOutdoorsMask = IF c.maskBlurEnabled THEN "blurred"
                                           ELSE "combined",
                         !.u_time = @ + deltaTime]

CloudUpdateEffectTargets(c, tg) ==
    [c EXCEPT !.maskSprites = UpdateSprites(@, tg, "outdoors"),
              !._needsMaskUpdate = TRUE]

\* an updateFromConfig that shows the layer by the stage's own flag alone
CloudUpdateFromConfigStageFlagOnly(c, cfg) ==
    LET csConfig == cfg.cloudShadows
        q == [c EXCEPT !.visible = csConfig.enabled]
    IN IF c.cloudFilter = NULL THEN q
       ELSE [q EXCEPT !.maskBlur = csConfig.maskBlur,
                      !.maskBlurEnabled = csConfig.maskBlur > 0,
                      !.u_shadowIntensity = csConfig.shadowIntensity,
                      !._needsMaskUpdate = TRUE]

CloudUpdateFromConfig(c, cfg) ==
    LET csConfig == cfg.cloudShadows
        q == [c EXCEPT !.visible = cfg.enabled /\ csConfig.enabled]
    IN IF c.cloudFilter = NULL THEN q
       ELSE [q EXCEPT !.maskBlur = csConfig.maskBlur,
                      !.maskBlurEnabled = csConfig.maskBlur > 0,
                      !.u_shadowIntensity = csConfig.shadowIntensity,
                      !._needsMaskUpdate = TRUE]

\* RenderTexture.resize: a change of size reallocates the texture
Resized(rt, scr) ==
    IF rt.size = scr THEN rt ELSE [rt EXCEPT !.size = scr, !.written = FALSE]

CloudOnResize(c, scr, tg) ==
    [CloudUpdateEffectTargets(
        [c EXCEPT !.combinedMaskTexture = Resized(@, scr),
                  !.blurredMaskTexture = Resized(@, scr)], tg)
     EXCEPT !._needsMaskUpdate = TRUE]

\* CloudShadowsFilter and DustMotesFilter, main(): the red channel of the mask
\* at a pixel, in hundredths; a pixel below 0.01 is discarded
MaskValue(mask) == IF mask = "EMPTY" THEN 0 ELSE 100

Discarded(maskValue) == maskValue < 1

-----------------------------------------------------------------------------
(* DustMotesLayer *)

DustDraw(scr, fails) ==
    [ moteFilter |-> NewFilter("DustMotesFilter", fails),
      visible |-> TRUE,
      dustSprites |-> << >>,
      maskBlurEnabled |-> TRUE,
      combinedDustMaskTexture |-> RenderTexture(scr),
      blurredMaskTexture |-> RenderTexture(scr),
      uDustMask |-> "EMPTY",
      _needsMaskUpdate |-> TRUE,
      didRender |-> FALSE,
      didBlur |-> FALSE ]

DustOnPan(d) == [d EXCEPT !._needsMaskUpdate = TRUE]

DustOnAnimate(d, deltaTime) ==
    LET q == [d EXCEPT !.didRender = FALSE, !.didBlur = FALSE]
    IN IF ~d.visible \/ d.moteFilter = NULL \/ ~HasActive(d.dustSprites)
       THEN IF d.moteFilter # NULL THEN [q EXCEPT !.uDustMask = "EMPTY"] ELSE q
       ELSE LET r == IF d._needsMaskUpdate
                     THEN [q EXCEPT !.combinedDustMaskTexture.written = TRUE,
                                    !.didRender = TRUE,
                                    !.blurredMaskTexture.written =
                                        IF d.maskBlurEnabled THEN TRUE ELSE @,
                                    !.didBlur = d.maskBlurEnabled,
                                    !._needsMaskUpdate = FALSE]
                     ELSE q
            IN [r EXCEPT !.uDustMask = IF d.maskBlurEnabled THEN "blurred"
                                       ELSE "combined"]

DustUpdateEffectTargets(d, tg) ==
    [d EXCEPT !.dustSprites = UpdateSprites(@, tg, "dust"),
              !._needsMaskUpdate = TRUE]

DustUpdateFromConfig(d, cfg) ==
    LET dmConfig == cfg.dustMotes
        q == [d EXCEPT !.visible = cfg.enabled /\ dmConfig.enabled,
                       !.maskBlurEnabled = dmConfig.maskBlur > 0]
    IN IF d.moteFilter = NULL THEN q
       ELSE [q EXCEPT !._needsMaskUpdate = TRUE]

DustOnResize(d, scr, tg) ==
    [DustUpdateEffectTargets(
        [d EXCEPT !.combinedDustMaskTexture = Resized(@, scr),
                  !.blurredMaskTexture = Resized(@, scr)], tg)
     EXCEPT !._needsMaskUpdate = TRUE]

-----------------------------------------------------------------------------
(* HeatDistortionLayer; heatFilter is ScreenEffectsManager.getFilter('heatDistortion') *)

HeatDraw(scr) ==
    [ heatFilter |-> NULL,
      filterEnabled |-> FALSE,
      heatSprites |-> << >>,
      combinedMaskTexture |-> RenderTexture(scr),
      noiseManager |-> NoiseConstructor(scr),
      _needsMaskUpdate |-> TRUE,
      didRender |-> FALSE ]

\* ScreenEffectsManager.setupAllGlobalFilters, the heat distortion filter
HeatSetupFilter(h, fails) ==
    IF NewFilter("HeatDistortionFilter", fails) = NULL THEN h
    ELSE [h EXCEPT !.heatFilter = "filter", !.filterEnabled = TRUE]

HeatOnPan(h) == [h EXCEPT !._needsMaskUpdate = TRUE]

HeatUpdateEffectTargets(h, tg) ==
    [h EXCEPT !.heatSprites = UpdateSprites(@, tg, "heat"),
              !._needsMaskUpdate = TRUE]

\* _onAnimate reads OVERLAY_CONFIG itself
HeatOnAnimate(h, deltaTime, cfg) ==
    LET q == [h EXCEPT !.didRender = FALSE, !.noiseManager.didRender = FALSE]
    IN IF ~cfg.enabled \/ ~cfg.heatDistortion.enabled \/ h.heatFilter = NULL
       THEN IF h.heatFilter # NULL THEN [q EXCEPT !.filterEnabled = FALSE] ELSE q
       ELSE IF ~HasActive(h.heatSprites) THEN [q EXCEPT !.filterEnabled = FALSE]
       ELSE [q EXCEPT !.combinedMaskTexture.written =
                          IF h._needsMaskUpdate THEN TRUE ELSE @,
                      !.didRender = h._needsMaskUpdate,
                      !._needsMaskUpdate = FALSE,
                      !.filterEnabled = TRUE,
                      !.noiseManager = NoiseUpdate(@, deltaTime)]

HeatUpdateFromConfig(h, fails) ==
    [h EXCEPT !.noiseManager = NoiseUpdateFromConfig(@, fails),
              !._needsMaskUpdate = TRUE]

HeatOnResize(h, scr, tg) ==
    [HeatUpdateEffectTargets(
        [h EXCEPT !.combinedMaskTexture = Resized(@, scr),
                  !.noiseManager = NoiseResize(@, scr)], tg)
     EXCEPT !._needsMaskUpdate = TRUE]

-----------------------------------------------------------------------------
(* MetallicShineLayer: the consumer of the pattern texture *)

\* _draw: one try block creates the shine, threshold, blur, bloom and
\* starburst filters; the catch logs to the console
MetallicDraw(fails) ==
    [ shineFilter |-> NewFilter("MetallicShineFilter", fails),
      visible |-> TRUE,
      shineSprites |-> << >>,
      bloomSprites |-> << >>,
      starburstSprites |-> << >> ]

MetallicUpdateFromConfig(m, cfg) ==
    [m EXCEPT !.visible = cfg.enabled /\ cfg.baseShine.enabled]

MetallicUpdateEffectTargets(m, tg) ==
    IF ~m.visible THEN m
    ELSE [m EXCEPT !.shineSprites = UpdateSprites(@, tg, "specular"),
                   !.bloomSprites = UpdateSprites(@, tg, "specular"),
                   !.starburstSprites = UpdateSprites(@, tg, "specular")]

MetallicOnResize(m, tg) == MetallicUpdateEffectTargets(m, tg)

-----------------------------------------------------------------------------
(* IridescenceLayer (patternLayer is linked when canvasReady starts) and     *)
(* BackgroundLayer                                                           *)

IridescenceDraw == [visible |-> TRUE, targetContainers |-> << >>]

IridescenceUpdateFromConfig(l, cfg) ==
    [l EXCEPT !.visible = cfg.enabled /\ cfg.iridescence.enabled]

\* _updateSpriteTexture keeps the old mask texture when loading throws
IridescenceUpdateEffectTargets(l, tg) ==
    IF ~l.visible THEN [l EXCEPT !.targetContainers = << >>]
    ELSE [l EXCEPT !.targetContainers =
            [id \in ValidTargetIds(tg, "iridescence") |->
                LET old == IF id \in DOMAIN l.targetContainers
                           THEN l.targetContainers[id].texture ELSE EMPTY
                    new == LoadedTexture(old, AllTargets(tg)[id], "iridescence")
                IN [texture |-> IF "iridescence" \in AllTargets(tg)[id].broken
                                THEN old ELSE new]]]

-----------------------------------------------------------------------------
(* GroundGlowLayer: its visibility *)

\* _draw, then the first updateEffectTargets: the container is hidden until a
\* configuration enables it; api is game.modules.get('illuminationbuffer')?.api
GroundGlowDraw(api) == [api |-> api, visible |-> FALSE]

\* updateFromConfig, and the isEffectivelyEnabled of updateEffectTargets
GroundGlowUpdateFromConfig(g, cfg) ==
    [g EXCEPT !.visible = cfg.enabled /\ cfg.groundGlow.enabled /\ g.api]

BackgroundDraw == [effectSprites |-> << >>]

BackgroundUpdateEffectTargets(l, tg) ==
    [l EXCEPT !.effectSprites = UpdateSprites(@, tg, "base")]

-----------------------------------------------------------------------------
(* systemStatus._state: the shader entries the stages of the model write,
   and the pipeline entry *)

\* the keys of TextureAutoLoader.SUFFIX_MAP
SuffixKeys ==
    {"specular", "ambient", "iridescence", "groundGlow", "heat", "dust", "outdoors"}

ShaderKeys == {"baseShine", "noise", "bloom", "iridescence", "heat", "cloudShadows"}

\* emitted: the entries the last operation that called update() has emitted
\* 'statusChanged' for
InitialStatus ==
    [ baseShine |-> "unknown", noise |-> "unknown", bloom |-> "unknown",
      iridescence |-> "unknown", heat |-> "unknown", cloudShadows |-> "unknown",
      noiseToShine |-> "inactive",
      textures |-> [key \in SuffixKeys |-> "inactive"],
      emitted |-> {} ]

\* an update() that replaces the entry and tells nobody
UpdateSilently(st, category, key, state) ==
    IF category = "textures"
    THEN IF key \in DOMAIN st.textures THEN [st EXCEPT !.textures[key] = state] ELSE st
    ELSE IF key \in DOMAIN st THEN [st EXCEPT ![key] = state] ELSE st

\* update(category, key, statusObject)
Update(st, category, key, state) ==
    IF category = "textures"
    THEN IF key \in DOMAIN st.textures
         THEN [st EXCEPT !.textures[key] = state, !.emitted = @ \cup {<<category, key>>}]
         ELSE st
    ELSE IF key \in DOMAIN st
         THEN [st EXCEPT ![key] = state, !.emitted = @ \cup {<<category, key>>}]
         ELSE st

\* an operation that calls update() starts its own list of notifications
Cleared(st) == [st EXCEPT !.emitted = {}]

\* evaluatePipelines(): the state it gives the 'noiseToShine' pipeline
EvaluatePipelines(cfg, st) ==
    IF ~cfg.baseShine.noise.enabled THEN "disabled"
    ELSE IF st.noise # "ok" THEN "error"
    ELSE "ok"

CompileState(shader, fails) ==
    IF NewFilter(shader, fails) # NULL THEN "ok" ELSE "error"

\* the statuses after every layer's _draw
\* the 'noise' shader status a NoiseTextureManager's updateFromConfig leaves
NoiseStatusAfter(n, fails, st) ==
    IF n.filter # NULL THEN st
    ELSE Update(st, "shaders", "noise", CompileState("NoisePatternFilter", fails))

DrawStatus(st, fails) ==
    LET s1 == Update(Cleared(st), "shaders", "baseShine",
                     CompileState("ShinePatternFilter", fails))
        s2 == Update(s1, "shaders", "iridescence", CompileState("IridescenceFilter", fails))
        s3 == Update(s2, "shaders", "cloudShadows",
                     CompileState("CloudShadowsFilter", fails))
    IN NoiseStatusAfter(NoiseConstructor(InitialScreen), fails, s3)

StatusAfterDraw(fails) == DrawStatus(InitialStatus, fails)

\* the 'noise' status after the updateFromConfig calls of the three layers
\* that own a NoiseTextureManager
StatusAfterConfig(st, p, ip, h, fails) ==
    LET s1 == IF p.shinePatternFilter = NULL THEN Cleared(st)
              ELSE NoiseStatusAfter(p.noiseTextureManager, fails, Cleared(st))
        s2 == NoiseStatusAfter(ip.distortionNoiseManager, fails, s1)
    IN NoiseStatusAfter(h.noiseManager, fails, s2)

\* canvasReady: the status of every texture key after the discovery
TextureStatus(st, tg) ==
    LET found(key) == \/ key \in tg.background.maps
                      \/ \E id \in DOMAIN tg.tiles : key \in tg.tiles[id].maps
        RECURSIVE upd(_, _)
        upd(s, keys) ==
            IF keys = {} THEN s
            ELSE LET key == CHOOSE k \in keys : TRUE
                 IN upd(Update(s, "textures", key, IF found(key) THEN "ok" ELSE "warning"),
                        keys \ {key})
    IN upd(Cleared(st), SuffixKeys)

-----------------------------------------------------------------------------
(* The scenes and configurations the specifications draw from *)

AssetNamed(src) == CHOOSE a \in Assets : a.src = src

Pushed(w, rendered) ==
    LET v == Append(w, rendered)
    IN IF Len(v) > 2 * MaxFreq THEN Tail(v) ELSE v

FailSets(shaders) == {f \in SUBSET shaders : Cardinality(f) <= MaxFailing}

\* The state when every layer's _draw has run and canvasReady is about to start.
-----------------------------------------------------------------------------
(* canvas.app.ticker, the Hooks registry and the listeners of the window *)

Range(seq) == {seq[i] : i \in DOMAIN seq}

Without(seq, x) == SelectSeq(seq, LAMBDA y : y # x)

Only(seq, set) == SelectSeq(seq, LAMBDA y : y \in set)

\* CONFIG.Canvas.layers: the layers of each group, in the order of declaration
PrimaryLayers ==
    <<"background", "heat", "pattern", "iriPattern", "iridescence", "metallic">>

EnvironmentLayers == <<"dust", "cloud">>

DeclaredOrder == PrimaryLayers \o EnvironmentLayers

\* Foundry draws the layers group by group; which group comes first is not
\* decided by the module
DrawOrders ==
    {PrimaryLayers \o EnvironmentLayers, EnvironmentLayers \o PrimaryLayers}

\* what each _draw registers
TickerLayers == {"heat", "pattern", "iriPattern", "iridescence", "metallic", "dust", "cloud"}

ResizeLayers == {"background", "heat", "iridescence", "metallic", "dust", "cloud"}

PanHookLayers == {"heat", "pattern", "iriPattern", "dust", "cloud"}

\* the layers whose _tearDown destroys RenderTextures
TextureLayers == {"heat", "pattern", "iriPattern", "dust", "cloud"}

NoApp ==
    [ ticker |-> << >>, resize |-> {}, hooks |-> << >>, drawn |-> {},
      destroyed |-> {}, phase |-> "tearDown", cycle |-> 0, edits |-> 0 ]

\* the _draw of every layer, in the order the canvas draws them
DrawLayers(a, order, wrapped) ==
    [ a EXCEPT !.ticker = @ \o Only(order, TickerLayers),
               !.resize = @ \cup (Range(order) \cap ResizeLayers),
               !.hooks = IF wrapped THEN @ ELSE @ \o Only(order, PanHookLayers),
               !.drawn = Range(order),
               !.destroyed = {},
               !.phase = "drawn" ]

\* a layer's _tearDown
TearDownLayer(a, layer) ==
    [ a EXCEPT !.ticker = Without(@, layer),
               !.resize = @ \ {layer},
               !.hooks = Without(@, layer),
               !.drawn = @ \ {layer},
               !.destroyed = @ \cup ({layer} \cap TextureLayers) ]

\* new DynamicTokenMaskManager()
RegisterTokenMask(a) ==
    [ a EXCEPT !.ticker = Append(@, "tokenMask"),
               !.hooks = @ \o <<"tokenMask", "tokenMask", "tokenMask">> ]

Registered(name) == name \in Range(app.ticker)

\* the layer whose RenderTexture a layer's frame callback or sprites take:
\* getPatternTexture() of the two pattern layers
ProducerOf ==
    [ metallic |-> "pattern", dust |-> "pattern", iridescence |-> "iriPattern" ]

-----------------------------------------------------------------------------
(* ProfileManager, ClientOverrides and the settings they read *)

\* foundry.utils.mergeObject(original, other, {inplace, overwrite, recursive,
\* insertKeys, insertValues}): the keys of other are written over those of
\* original, objects are merged key by key, and the keys original does not
\* have are inserted
RECURSIVE MergeObject(_, _)
MergeObject(original, other) ==
    LET \* the keys of a configuration tree whose values are objects
        ObjectKeys == {"baseShine", "animation", "noise", "iridescence",
                       "cloudShadows", "dustMotes", "groundGlow", "heatDistortion",
                       "normalMap"}
    IN  [ key \in DOMAIN original \cup DOMAIN other |->
            IF key \notin DOMAIN other THEN original[key]
            ELSE IF key \in DOMAIN original /\ key \in ObjectKeys
                 THEN MergeObject(original[key], other[key])
                 ELSE other[key] ]

\* getEffectiveConfig() of a manager that holds the shipped defaults, no user
\* overrides, under client settings at their defaults
GetEffectiveConfig(sceneProfile) == MergeObject(DefaultConfig, sceneProfile)

\* a scene without the 'profile' flag, a scene without user adjustments
NoProfile == << >>

\* the client settings as registered: 'user-disable-distortion',
\* 'user-heatDistortion-intensity'; the world setting 'defaultProfile'
DefaultSettings ==
    [ disableDistortion |-> FALSE, heatIntensity |-> 100, defaultProfile |-> "" ]

\* ClientOverrides.apply(config): the intensity of the effect is scaled by the
\* client's percentage, then the accessibility override switches the effect off
ClientOverridesApply(cfg, settings) ==
    LET originalValue == cfg.heatDistortion.intensity
        scaled == IF settings.heatIntensity # 100
                  THEN [cfg EXCEPT !.heatDistortion.intensity =
                                       (originalValue * settings.heatIntensity) \div 100]
                  ELSE cfg
    IN  IF settings.disableDistortion
        THEN [scaled EXCEPT !.heatDistortion.enabled = FALSE]
        ELSE scaled

\* new ProfileManager(): _moduleDefaults is a clone of the live OVERLAY_CONFIG
ProfileManagerConstructor(liveConfig, settings) ==
    [ moduleDefaults |-> liveConfig,
      sceneProfile |-> NoProfile,
      userOverrides |-> NoProfile,
      defaultProfileName |-> "",
      settings |-> settings ]

\* ProfileManager.getEffectiveConfig()
EffectiveConfigOf(pm) ==
    ClientOverridesApply(
        MergeObject(MergeObject(pm.moduleDefaults, pm.sceneProfile), pm.userOverrides),
        pm.settings)

\* canvas.tokens.placeables of a scene without tokens
NoTokens == << >>

\* ScreenEffectsManager: _container (set or null), _filters in the order of
\* the Map, canvas.stage.filters, and for the properties the filters that were
\* destroyed (with how often), the number of filters constructed, and the
\* filters other code has put on the stage
NoScreenEffects ==
    [ container |-> FALSE, filters |-> << >>, stage |-> << >>,
      destroyed |-> << >>, made |-> 0, others |-> << >> ]

\* the keys and classes of setupAllGlobalFilters, in its order
GlobalFilters ==
    << [key |-> "heatDistortion", cls |-> "HeatDistortionFilter"],
       [key |-> "vignette", cls |-> "VignetteFilter"],
       [key |-> "lensDistortion", cls |-> "LensDistortionFilter"],
       [key |-> "chromaticAberration", cls |-> "ChromaticAberrationFilter"],
       [key |-> "colorCorrection", cls |-> "ColorCorrectionFilter"],
       [key |-> "advancedBloom", cls |-> "AdvancedBloomFilter"],
       [key |-> "tiltShift", cls |-> "TiltShiftFilter"] >>

\* filterClasses of _updateContainerFilters
FilterClasses == { GlobalFilters[i].cls : i \in 1..Len(GlobalFilters) }

\* filter.destroy()
Destroy(destroyed, fs) ==
    [ f \in DOMAIN destroyed \cup fs |->
        (IF f \in DOMAIN destroyed THEN destroyed[f] ELSE 0)
        + (IF f \in fs THEN 1 ELSE 0) ]

\* _updateContainerFilters: the stage's filters that are of none of the
\* module's classes, then the registered filters
UpdateContainerFilters(sem) ==
    IF ~sem.container THEN sem
    ELSE LET IsOther(f) == f.cls \notin FilterClasses
         IN [sem EXCEPT !.stage =
                SelectSeq(@, IsOther)
                \o [ i \in 1..Len(sem.filters) |-> sem.filters[i].filter ]]

ScreenEffectsInitialize(sem) == [sem EXCEPT !.container = TRUE]

RemoveFilter(sem, key) ==
    LET Has(e) == e.key = key
        Not(e) == e.key # key
    IN  IF ~sem.container \/ SelectSeq(sem.filters, Has) = << >> THEN sem
        ELSE UpdateContainerFilters(
                [sem EXCEPT !.destroyed = Destroy(@, {SelectSeq(sem.filters, Has)[1].filter}),
                            !.filters = SelectSeq(@, Not)])

\* addFilter(key, new cls())
AddFilter(sem, key, cls) ==
    LET filter == [owner |-> "mapShine", n |-> sem.made + 1, cls |-> cls]
        made == [sem EXCEPT !.made = @ + 1]
    IN  IF ~sem.container THEN made
        ELSE UpdateContainerFilters(
                [RemoveFilter(made, key) EXCEPT
                    !.filters = Append(@, [key |-> key, filter |-> filter])])

\* setupAllGlobalFilters: a filter whose constructor throws is not added; s is
\* the manager as the i-th try block finds it
RECURSIVE AddGlobalFilters(_, _, _)
AddGlobalFilters(sem, i, fails) ==
    IF i > Len(GlobalFilters) THEN sem
    ELSE CHOOSE after \in
            { AddGlobalFilters(
                IF GlobalFilters[i].cls \in fails THEN s
                ELSE AddFilter(s, GlobalFilters[i].key, GlobalFilters[i].cls),
                i + 1, fails) : s \in {sem} } : TRUE

\* ScreenEffectsManager.tearDown, called by MetallicShineLayer._tearDown
ScreenEffectsTearDown(sem) ==
    IF ~sem.container THEN sem
    ELSE [UpdateContainerFilters(
            [sem EXCEPT !.destroyed =
                            Destroy(@, { sem.filters[i].filter : i \in 1..Len(sem.filters) }),
                        !.filters = << >>])
          EXCEPT !.container = FALSE]

\* no refresh and no updateEffectTargets call is waiting; started counts the
\* refreshes the tile hooks have started, supplied holds the targets last
\* passed to each layer, wroteDestroyed records a texture assigned to a sprite
\* that another call had destroyed
NoCalls ==
    [ refreshes |-> {}, calls |-> {}, started |-> 0,
      supplied |-> << >>, wroteDestroyed |-> FALSE ]

\* canvasInit: a LoadingScreen is created and shown unless one is still held
LoadingScreenShow == [held |-> TRUE, shown |-> TRUE]

CanvasInitLoadingScreen(ls) == IF ls.held THEN ls ELSE LoadingScreenShow

\* the end of canvasReady: await loadingScreen.hide() removes the element, and
\* game.mapShine.loadingScreen = null
LoadingScreenHide(ls) == IF ls.held THEN [held |-> FALSE, shown |-> FALSE] ELSE ls

InitWith(failSets, scenes, orders, apis) ==
    /\ libwrapper \in BOOLEAN
    /\ failing \in failSets
    /\ scene \in scenes
    /\ screen = InitialScreen
    /\ config = DefaultConfig
    /\ status = StatusAfterDraw(failing)
    /\ pattern = PatternDraw(InitialScreen, DefaultConfig, failing)
    /\ iriPattern = IriPatternDraw(InitialScreen, DefaultConfig, failing)
    /\ cloud = CloudDraw(InitialScreen, failing)
    /\ dust = DustDraw(InitialScreen, failing)
    /\ heat = HeatDraw(InitialScreen)
    /\ metallic = MetallicDraw(failing)
    /\ tokenMask = NoTokenMask
    /\ iridescence = IridescenceDraw
    /\ background = BackgroundDraw
    /\ targets = NoTargets
    /\ ready = 0
    /\ frame = 0
    /\ lastOp = "Init"
    /\ app \in {DrawLayers(NoApp, order, libwrapper) : order \in orders}
    /\ window = << >>
    /\ groundGlow \in {GroundGlowDraw(api) : api \in apis}
    /\ profile = ProfileManagerConstructor(DefaultConfig, DefaultSettings)
    /\ loadingScreen = LoadingScreenShow
    /\ tokens = NoTokens
    /\ screenEffects = NoScreenEffects
    /\ inflight = NoCalls

-----------------------------------------------------------------------------
(* The operations *)

Done == 6       \* canvasReady has hidden the loading screen
Aborted == -1   \* canvasReady ended at a step that threw

\* every layer's _onAnimate(deltaTime), as the ticker or canvasReady calls them
LayersOnAnimate(deltaTime) ==
    /\ pattern' = PatternOnAnimate(pattern, deltaTime)
    /\ iriPattern' = IriPatternOnAnimate(iriPattern, deltaTime, config)
    /\ cloud' = CloudOnAnimate(cloud, deltaTime)
    /\ dust' = DustOnAnimate(dust, deltaTime)
    /\ heat' = HeatOnAnimate(heat, deltaTime, config)
    /\ frame' = frame + 1
    /\ window' = Pushed(window, pattern'.didRender)

\* a ticker on which the dust layer's callback renders into the texture of
\* the pattern layer
TickerOnAnimateSharedTarget(deltaTime) ==
    /\ pattern' = LET p == IF Registered("pattern")
                           THEN PatternOnAnimate(pattern, deltaTime) ELSE pattern
                  IN IF Registered("dust") /\ DustOnAnimate(dust, deltaTime).didRender
                     THEN [p EXCEPT !.renderTexture.written = TRUE, !.didRender = TRUE]
                     ELSE p
    /\ iriPattern' = IF Registered("iriPattern")
                     THEN IriPatternOnAnimate(iriPattern, deltaTime, config)
                     ELSE iriPattern
    /\ cloud' = IF Registered("cloud") THEN CloudOnAnimate(cloud, deltaTime) ELSE cloud
    /\ dust' = IF Registered("dust") THEN DustOnAnimate(dust, deltaTime) ELSE dust
    /\ heat' = IF Registered("heat") THEN HeatOnAnimate(heat, deltaTime, config)
               ELSE heat
    /\ frame' = frame + 1
    /\ window' = Pushed(window, Registered("pattern") /\ pattern'.didRender)

\* the frame callbacks canvas.app.ticker holds, each called once
TickerOnAnimate(deltaTime) ==
    /\ pattern' = IF Registered("pattern")
                  THEN PatternOnAnimate(pattern, deltaTime) ELSE pattern
    /\ iriPattern' = IF Registered("iriPattern")
                     THEN IriPatternOnAnimate(iriPattern, deltaTime, config)
                     ELSE iriPattern
    /\ cloud' = IF Registered("cloud") THEN CloudOnAnimate(cloud, deltaTime) ELSE cloud
    /\ dust' = IF Registered("dust") THEN DustOnAnimate(dust, deltaTime) ELSE dust
    /\ heat' = IF Registered("heat") THEN HeatOnAnimate(heat, deltaTime, config)
               ELSE heat
    /\ frame' = frame + 1
    /\ window' = Pushed(window, Registered("pattern") /\ pattern'.didRender)

\* one tick of canvas.app.ticker: every registered frame callback runs once
Tick(deltaTime) ==
    /\ frame < MaxFrames
    /\ TickerOnAnimate(deltaTime)
    /\ tokenMask' = IF Registered("tokenMask") THEN TokenOnAnimate(tokenMask)
                    ELSE tokenMask
    /\ lastOp' = "Tick"
    /\ UNCHANGED <<loadingScreen, tokens, screenEffects, inflight>>
    /\ UNCHANGED groundGlow
    /\ UNCHANGED profile
    /\ UNCHANGED app
    /\ UNCHANGED <<libwrapper, failing, screen, config, status, metallic,
                   iridescence, background, scene, targets, ready>>

\* every layer's updateFromConfig(OVERLAY_CONFIG), in turn
LayersUpdateFromConfig(cfg) ==
    /\ pattern' = PatternUpdateFromConfig(pattern, cfg, failing)
    /\ iriPattern' = IriPatternUpdateFromConfig(iriPattern, cfg, failing)
    /\ cloud' = CloudUpdateFromConfig(cloud, cfg)
    /\ dust' = DustUpdateFromConfig(dust, cfg)
    /\ heat' = HeatUpdateFromConfig(heat, failing)
    /\ metallic' = MetallicUpdateFromConfig(metallic, cfg)
    /\ iridescence' = IridescenceUpdateFromConfig(iridescence, cfg)
    /\ groundGlow' = GroundGlowUpdateFromConfig(groundGlow, cfg)
    /\ status' = StatusAfterConfig(status, pattern, iriPattern, heat, failing)
    /\ window' = << >>

\* ProfileManager.applyEffectiveConfig: the effective configuration is merged
\* into OVERLAY_CONFIG and handed to every layer
ApplyEffectiveConfig(cfg) ==
    /\ config' = MergeObject(config, cfg)
    /\ LayersUpdateFromConfig(config')
    /\ UNCHANGED <<libwrapper, failing, screen, tokenMask, background, scene,
                   targets, frame>>

\* canvasReady, await profileManager.initialize()
ProfileInitialize(cfg) ==
    /\ ready = 0
    /\ ready' = 1
    /\ ApplyEffectiveConfig(cfg)
    /\ lastOp' = "ProfileInitialize"
    /\ UNCHANGED <<loadingScreen, tokens, screenEffects, inflight>>
    /\ UNCHANGED profile
    /\ UNCHANGED app

\* canvasReady, ScreenEffectsManager.setupAllGlobalFilters()
SetupAllGlobalFilters ==
    /\ ready = 1
    /\ ready' = 2
    /\ heat' = HeatSetupFilter(heat, failing)
    /\ status' = Update(Cleared(status), "shaders", "heat",
                        CompileState("HeatDistortionFilter", failing))
    /\ lastOp' = "SetupAllGlobalFilters"
    /\ screenEffects' = AddGlobalFilters(ScreenEffectsInitialize(screenEffects), 1, failing)
    /\ UNCHANGED <<loadingScreen, tokens, inflight>>
    /\ UNCHANGED groundGlow
    /\ UNCHANGED profile
    /\ UNCHANGED app
    /\ UNCHANGED <<libwrapper, failing, screen, config, pattern, iriPattern, cloud,
                   dust, metallic, tokenMask, iridescence, background, scene,
                   targets, frame, window>>

\* canvasReady, the loop over layersToUpdate
ConfigureLayers ==
    /\ ready = 2
    /\ ready' = 3
    /\ LayersUpdateFromConfig(config)
    /\ lastOp' = "ConfigureLayers"
    /\ UNCHANGED <<loadingScreen, tokens, screenEffects, inflight>>
    /\ UNCHANGED profile
    /\ UNCHANGED app
    /\ UNCHANGED <<libwrapper, failing, screen, config, tokenMask, background,
                   scene, targets, frame>>

\* canvasReady, the two pattern layers are rendered once
PreRenderPatterns ==
    /\ ready = 3
    /\ ready' = 4
    /\ pattern' = PatternOnAnimate(pattern, 1)
    /\ iriPattern' = IriPatternOnAnimate(iriPattern, 1, config)
    /\ frame' = frame + 1
    /\ window' = Pushed(window, pattern'.didRender)
    /\ lastOp' = "PreRenderPatterns"
    /\ UNCHANGED <<loadingScreen, tokens, screenEffects, inflight>>
    /\ UNCHANGED groundGlow
    /\ UNCHANGED profile
    /\ UNCHANGED app
    /\ UNCHANGED <<libwrapper, failing, screen, config, status, cloud, dust, heat,
                   metallic, tokenMask, iridescence, background, scene, targets>>

\* effectTargetManager.refresh(): discovery, then every layer's
\* updateEffectTargets, to completion
RefreshTargets ==
    /\ targets' = DiscoverAllTargets(scene')
    /\ background' = BackgroundUpdateEffectTargets(background, targets')
    /\ heat' = HeatUpdateEffectTargets(heat, targets')
    /\ iridescence' = IridescenceUpdateEffectTargets(iridescence, targets')
    /\ metallic' = MetallicUpdateEffectTargets(metallic, targets')
    /\ dust' = DustUpdateEffectTargets(dust, targets')
    /\ cloud' = CloudUpdateEffectTargets(cloud, targets')
    /\ groundGlow' = GroundGlowUpdateFromConfig(groundGlow, config)
    /\ UNCHANGED <<libwrapper, failing, screen, config, pattern,
                   iriPattern, tokenMask, frame, window>>

\* canvasReady, await effectTargetManager.refresh(), then the status of the
\* texture keys
DiscoverTargets ==
    /\ ready = 4
    /\ ready' = 5
    /\ scene' = scene
    /\ RefreshTargets
    /\ status' = TextureStatus(status, targets')
    /\ lastOp' = "DiscoverTargets"
    /\ UNCHANGED <<loadingScreen, tokens, screenEffects, inflight>>
    /\ UNCHANGED profile
    /\ UNCHANGED app

\* canvasReady, the scene managers are created and a final frame is rendered
CreateManagers ==
    /\ ready = 5
    /\ ready' = Done
    /\ tokenMask' = RenderMask(TokenMaskConstructor(screen))
    /\ LayersOnAnimate(1)
    /\ lastOp' = "CreateManagers"
    /\ loadingScreen' = LoadingScreenHide(loadingScreen)
    /\ UNCHANGED <<tokens, screenEffects, inflight>>
    /\ UNCHANGED groundGlow
    /\ UNCHANGED profile
    /\ app' = RegisterTokenMask(app)
    /\ UNCHANGED <<libwrapper, failing, screen, config, status, metallic,
                   iridescence, background, scene, targets>>

\* a profile or a control of the editor is applied once the canvas is ready
Configure(cfg) ==
    /\ ready = Done
    /\ ApplyEffectiveConfig(cfg)
    /\ lastOp' = "Configure"
    /\ UNCHANGED <<loadingScreen, tokens, screenEffects, inflight>>
    /\ UNCHANGED profile
    /\ UNCHANGED app
    /\ UNCHANGED ready

\* the _onResize of every layer that has one, on the current screen
LayersOnResize(c, d, h) ==
    /\ cloud' = CloudOnResize(c, screen', targets)
    /\ dust' = DustOnResize(d, screen', targets)
    /\ heat' = HeatOnResize(h, screen', targets)
    /\ metallic' = MetallicOnResize(metallic, targets)
    /\ iridescence' = IridescenceUpdateEffectTargets(iridescence, targets)
    /\ background' = BackgroundUpdateEffectTargets(background, targets)

\* canvas.pan(): with libWrapper the wrapper of Canvas.prototype.pan calls
\* _onPan and _onResize of every layer, without it the layers' canvasPan hooks
\* call _onPan; the token mask manager's canvasPan hook runs in both cases
Pan ==
    /\ screen' = screen
    /\ pattern' = PatternOnPan(pattern)
    /\ iriPattern' = IriPatternOnPan(iriPattern)
    /\ tokenMask' = RequestUpdate(tokenMask)
    /\ IF libwrapper
       THEN LayersOnResize(CloudOnPan(cloud), DustOnPan(dust), HeatOnPan(heat))
       ELSE /\ cloud' = CloudOnPan(cloud)
            /\ dust' = DustOnPan(dust)
            /\ heat' = HeatOnPan(heat)
            /\ UNCHANGED <<metallic, iridescence, background>>
    /\ window' = << >>
    /\ lastOp' = "Pan"
    /\ UNCHANGED <<loadingScreen, tokens, screenEffects, inflight>>
    /\ UNCHANGED groundGlow
    /\ UNCHANGED profile
    /\ UNCHANGED app
    /\ UNCHANGED <<libwrapper, failing, config, status, scene, targets, ready, frame>>

\* the browser window is resized: the renderer's screen changes and the
\* 'resize' listeners of the layers run
Resize(scr) ==
    /\ screen' = scr
    /\ LayersOnResize(cloud, dust, heat)
    /\ window' = << >>
    /\ lastOp' = "Resize"
    /\ UNCHANGED <<loadingScreen, tokens, screenEffects, inflight>>
    /\ UNCHANGED groundGlow
    /\ UNCHANGED profile
    /\ UNCHANGED app
    /\ UNCHANGED <<libwrapper, failing, config, status, pattern, iriPattern,
                   tokenMask, scene, targets, ready, frame>>

\* createToken, deleteToken and Token.prototype.refresh
TokenChange ==
    /\ tokenMask.created
    /\ tokenMask' = RequestUpdate(tokenMask)
    /\ lastOp' = "TokenChange"
    /\ UNCHANGED <<loadingScreen, tokens, screenEffects, inflight>>
    /\ UNCHANGED groundGlow
    /\ UNCHANGED profile
    /\ UNCHANGED app
    /\ UNCHANGED <<libwrapper, failing, screen, config, status, pattern, iriPattern,
                   cloud, dust, heat, metallic, iridescence, background, scene,
                   targets, ready, frame, window>>

\* a tile is created or its texture changed; the createTile / updateTile hook
\* refreshes the targets
PutTile(id, asset) ==
    /\ ready = Done
    /\ IF id \in DOMAIN scene.tiles THEN scene.tiles[id] # asset ELSE TRUE
    /\ scene' = [scene EXCEPT !.tiles =
                    [t \in DOMAIN scene.tiles \cup {id} |->
                        IF t = id THEN asset ELSE scene.tiles[t]]]
    /\ RefreshTargets
    /\ lastOp' = "PutTile"
    /\ UNCHANGED <<loadingScreen, tokens, screenEffects, inflight>>
    /\ UNCHANGED profile
    /\ UNCHANGED app
    /\ UNCHANGED <<ready, status>>

\* a tile is deleted; the deleteTile hook refreshes the targets
DeleteTile(id) ==
    /\ ready = Done
    /\ id \in DOMAIN scene.tiles
    /\ scene' = [scene EXCEPT !.tiles = [t \in DOMAIN scene.tiles \ {id} |-> scene.tiles[t]]]
    /\ RefreshTargets
    /\ lastOp' = "DeleteTile"
    /\ UNCHANGED <<loadingScreen, tokens, screenEffects, inflight>>
    /\ UNCHANGED profile
    /\ UNCHANGED app
    /\ UNCHANGED <<ready, status>>

-----------------------------------------------------------------------------
(* The scheduler: the throttle and the dirty flags of the pattern stage and  *)
(* the token mask, under every update frequency                             *)

SchedConfigs ==
    { [DefaultConfig EXCEPT !.baseShine.animation.updateFrequency = n,
                            !.baseShine.noise.enabled = b] :
        n \in 0..MaxFreq, b \in BOOLEAN }

SchedScene ==
    [background |-> AssetNamed("yard"), tiles |-> [t \in {"T1"} |-> AssetNamed("metal")]]

InitSched == InitWith(FailSets({"ShinePatternFilter", "NoisePatternFilter"}), {SchedScene}, {DeclaredOrder}, {FALSE})

CanvasReady(configs) ==
    \/ \E cfg \in configs : ProfileInitialize(cfg)
    \/ SetupAllGlobalFilters
    \/ ConfigureLayers
    \/ PreRenderPatterns
    \/ DiscoverTargets
    \/ CreateManagers

NextSched ==
    \/ CanvasReady(SchedConfigs)
    \/ \E deltaTime \in DeltaTimes : Tick(deltaTime)
    \/ \E cfg \in SchedConfigs : Configure(cfg)
    \/ Pan
    \/ TokenChange

SpecSched == InitSched /\ [][NextSched]_vars

-----------------------------------------------------------------------------
(* The stages and their targets: enabled flags, mask blur, resizes and tile  *)
(* changes                                                                   *)

StageConfigs ==
    { DefaultConfig,
      [DefaultConfig EXCEPT !.enabled = FALSE],
      [DefaultConfig EXCEPT !.baseShine.enabled = FALSE],
      [DefaultConfig EXCEPT !.iridescence.enabled = FALSE],
      [DefaultConfig EXCEPT !.iridescence.speed = 1],
      [DefaultConfig EXCEPT !.cloudShadows.enabled = FALSE],
      [DefaultConfig EXCEPT !.cloudShadows.maskBlur = 4],
      [DefaultConfig EXCEPT !.dustMotes.enabled = FALSE],
      [DefaultConfig EXCEPT !.dustMotes.maskBlur = 4],
      [DefaultConfig EXCEPT !.heatDistortion.enabled = FALSE] }

\* a tick, explored up to MaxStageFrames frames
StageTick(deltaTime) == frame < MaxStageFrames /\ Tick(deltaTime)

InitStages == InitWith({{}}, {SchedScene}, {DeclaredOrder}, {FALSE})

NextStages ==
    \/ CanvasReady(StageConfigs)
    \/ \E deltaTime \in DeltaTimes : StageTick(deltaTime)
    \/ \E cfg \in StageConfigs : Configure(cfg)
    \/ Pan
    \/ \E scr \in ScreenSizes : Resize(scr)

SpecStages == InitStages /\ [][NextStages]_vars

-----------------------------------------------------------------------------
(* The targets: tiles come and go while layers are shown and hidden *)

TargetConfigs ==
    { DefaultConfig,
      [DefaultConfig EXCEPT !.baseShine.enabled = FALSE],
      [DefaultConfig EXCEPT !.cloudShadows.enabled = FALSE] }

TargetScenes ==
    { [background |-> AssetNamed(b), tiles |-> << >>] : b \in {"plain", "yard"} }

TileAssets == {AssetNamed("metal"), AssetNamed("yard"), AssetNamed("bad")}

\* a tick, explored up to MaxTargetFrames frames
TargetTick(deltaTime) == frame < MaxTargetFrames /\ Tick(deltaTime)

InitTargets == InitWith({{}}, TargetScenes, {DeclaredOrder}, {FALSE})

NextTargets ==
    \/ CanvasReady(TargetConfigs)
    \/ \E deltaTime \in DeltaTimes : TargetTick(deltaTime)
    \/ \E cfg \in TargetConfigs : Configure(cfg)
    \/ \E id \in TileIds, asset \in TileAssets : PutTile(id, asset)
    \/ \E id \in TileIds : DeleteTile(id)

SpecTargets == InitTargets /\ [][NextTargets]_vars

-----------------------------------------------------------------------------
(* Failures: every shader class may be the one that does not compile *)

\* what made a shader constructor throw goes away: a later new X() succeeds
CompileRecovers(shader) ==
    /\ shader \in failing
    /\ failing' = failing \ {shader}
    /\ lastOp' = "CompileRecovers"
    /\ UNCHANGED <<loadingScreen, tokens, screenEffects, inflight>>
    /\ UNCHANGED groundGlow
    /\ UNCHANGED profile
    /\ UNCHANGED app
    /\ UNCHANGED <<libwrapper, screen, config, status, pattern, iriPattern, cloud,
                   dust, heat, metallic, tokenMask, iridescence, background, scene,
                   targets, ready, frame, window>>

InitFail == InitWith(FailSets(Shaders), {SchedScene}, {DeclaredOrder}, {FALSE})

NextFail ==
    \/ CanvasReady({DefaultConfig})
    \/ \E deltaTime \in DeltaTimes : StageTick(deltaTime)
    \/ Configure(DefaultConfig)
    \/ Pan
    \/ \E shader \in Shaders : CompileRecovers(shader)

SpecFail == InitFail /\ [][NextFail]_vars

-----------------------------------------------------------------------------
(* Profiles: the scene flag may hold options the module does not know *)

SceneProfiles ==
    { << >>,
      [enabled |-> FALSE],
      [heatDistortion |-> [enabled |-> FALSE]],
      [normalMap |-> [enabled |-> TRUE]],
      [normalMap |-> [enabled |-> TRUE], enabled |-> FALSE],
      [cloudShadows |-> [enabled |-> FALSE], groundGlow |-> [enabled |-> TRUE]],
      [baseShine |-> [enabled |-> FALSE], dustMotes |-> [enabled |-> FALSE],
       iridescence |-> [enabled |-> FALSE]] }

EffectiveConfigs == {GetEffectiveConfig(sceneProfile) : sceneProfile \in SceneProfiles}

InitConfig == InitWith({{}}, {SchedScene}, {DeclaredOrder}, BOOLEAN)

NextConfig ==
    \/ CanvasReady(EffectiveConfigs)
    \/ \E deltaTime \in DeltaTimes : StageTick(deltaTime)
    \/ \E cfg \in EffectiveConfigs : Configure(cfg)

SpecConfig == InitConfig /\ [][NextConfig]_vars

-----------------------------------------------------------------------------
(* The canvas cycle: a scene is torn down and the next one is drawn *)

\* the canvasTearDown hook: the canvas starts to tear the scene down
CanvasTearDown ==
    /\ ready = Done
    /\ app.phase = "drawn"
    /\ app' = [app EXCEPT !.phase = "tearDown"]
    /\ lastOp' = "CanvasTearDown"
    /\ UNCHANGED <<loadingScreen, tokens, screenEffects, inflight>>
    /\ UNCHANGED groundGlow
    /\ UNCHANGED profile
    /\ UNCHANGED <<libwrapper, failing, screen, config, status, pattern, iriPattern,
                   cloud, dust, heat, metallic, tokenMask, iridescence, background,
                   scene, targets, ready, frame, window>>

\* the canvas awaits the _tearDown of one layer; frames may run before the next
LayerTearDown(layer) ==
    /\ app.phase = "tearDown"
    /\ layer \in app.drawn
    /\ app' = TearDownLayer(app, layer)
    /\ pattern' = IF layer = "pattern"
                  THEN [pattern EXCEPT !.didRender = FALSE,
                                       !.noiseTextureManager.didRender = FALSE]
                  ELSE pattern
    /\ iriPattern' = IF layer = "iriPattern"
                     THEN [iriPattern EXCEPT !.didRender = FALSE,
                                             !.distortionNoiseManager.didRender = FALSE]
                     ELSE iriPattern
    /\ cloud' = IF layer = "cloud"
                THEN [cloud EXCEPT !.didRender = FALSE, !.didBlur = FALSE,
                                   !.maskSprites = << >>]
                ELSE cloud
    /\ dust' = IF layer = "dust"
               THEN [dust EXCEPT !.didRender = FALSE, !.didBlur = FALSE,
                                 !.dustSprites = << >>]
               ELSE dust
    /\ heat' = IF layer = "heat"
               THEN [heat EXCEPT !.didRender = FALSE, !.noiseManager.didRender = FALSE,
                                 !.heatSprites = << >>]
               ELSE heat
    /\ lastOp' = "LayerTearDown"
    /\ screenEffects' = IF layer = "metallic" THEN ScreenEffectsTearDown(screenEffects)
                        ELSE screenEffects
    /\ UNCHANGED <<loadingScreen, tokens, inflight>>
    /\ UNCHANGED groundGlow
    /\ UNCHANGED profile
    /\ UNCHANGED <<libwrapper, failing, screen, config, status, metallic, tokenMask,
                   iridescence, background, scene, targets, ready, frame, window>>

\* _draw on a layer the canvas has drawn before: the canvas keeps its layer
\* objects from scene to scene, so what only the constructor assigns (kept)
\* is as the last scene left it, and what _draw assigns is new
Redrawn(layer, drawn, kept) ==
    [ field \in DOMAIN drawn |->
        IF field \in kept THEN layer[field] ELSE drawn[field] ]

\* the next scene: canvasInit, then the canvas draws every layer
CanvasDraw(order) ==
    /\ app.phase = "tearDown"
    /\ app.drawn = {}
    /\ app.cycle < MaxCycles
    /\ app' = DrawLayers([app EXCEPT !.cycle = @ + 1], order, libwrapper)
    /\ status' = DrawStatus(status, failing)
    /\ pattern' = Redrawn(pattern, PatternDraw(screen, config, failing),
                           {"_frameCount", "_needsUpdate", "updateFrequency"})
    /\ iriPattern' = Redrawn(iriPattern, IriPatternDraw(screen, config, failing),
                              {"_needsUpdate"})
    /\ cloud' = Redrawn(cloud, CloudDraw(screen, failing), {"_needsMaskUpdate"})
    /\ dust' = Redrawn(dust, DustDraw(screen, failing), {"_needsMaskUpdate"})
    /\ heat' = Redrawn(heat, HeatDraw(screen), {"_needsMaskUpdate"})
    /\ metallic' = MetallicDraw(failing)
    /\ iridescence' = IridescenceDraw
    /\ background' = BackgroundDraw
    /\ ready' = 0
    /\ frame' = 0
    /\ window' = << >>
    /\ lastOp' = "CanvasDraw"
    /\ loadingScreen' = CanvasInitLoadingScreen(loadingScreen)
    /\ UNCHANGED <<tokens, screenEffects, inflight>>
    /\ profile' = ProfileManagerConstructor(config, profile.settings)
    /\ groundGlow' = GroundGlowDraw(groundGlow.api)
    /\ UNCHANGED <<libwrapper, failing, screen, config, tokenMask, scene, targets>>

CycleTick(deltaTime) == frame < MaxCycleFrames /\ Tick(deltaTime)

InitCycle == InitWith({{}}, {SchedScene}, DrawOrders, {FALSE})

NextCycle ==
    \/ CanvasReady({DefaultConfig})
    \/ \E deltaTime \in DeltaTimes : CycleTick(deltaTime)
    \/ CanvasTearDown
    \/ \E layer \in Range(DeclaredOrder) : LayerTearDown(layer)
    \/ \E order \in DrawOrders : CanvasDraw(order)

SpecCycle == InitCycle /\ [][NextCycle]_vars

-----------------------------------------------------------------------------
(* The profile manager over a session: scenes with and without a profile  *)
(* flag, the client settings, the editor, the world profiles              *)

MaxScenes == 1      \* scenes drawn after the first one where profiles vary
MaxEdits == 2       \* settings changed, controls used and profiles loaded in a session

\* one more operation of the user in this session
Edited(a) == [a EXCEPT !.edits = @ + 1]

\* the scene flag 'profile', written by saveConfigToScene from a whole
\* OVERLAY_CONFIG
SceneFlags == {NoProfile, [DefaultConfig EXCEPT !.cloudShadows.enabled = FALSE]}

\* the world setting 'profiles': each a whole OVERLAY_CONFIG saved by name
WorldProfiles ==
    [ hot |-> [DefaultConfig EXCEPT !.heatDistortion.intensity = 32],
      calm |-> [DefaultConfig EXCEPT !.heatDistortion.enabled = FALSE] ]

\* foundry.utils.setProperty(object, path, value)
SetProperty(object, path, value) ==
    MergeObject(object, path[1] :> (path[2] :> value))

\* ProfileManager.recordUserChange(path, value): a value equal to the one of
\* the defaults under the scene profile is set to undefined and cleaned away
\* (the object that held it stays), any other is set in the overrides
RecordUserChange(pm, path, value) ==
    LET baseConfig == MergeObject(pm.moduleDefaults, pm.sceneProfile)
        baseValue == IF path[1] \in DOMAIN baseConfig
                        /\ path[2] \in DOMAIN baseConfig[path[1]]
                     THEN baseConfig[path[1]][path[2]]
                     ELSE NULL
        held == IF path[1] \in DOMAIN pm.userOverrides
                THEN pm.userOverrides[path[1]]
                ELSE << >>
        cleaned == [ key \in DOMAIN pm.userOverrides \cup {path[1]} |->
                       IF key = path[1]
                       THEN [ sub \in DOMAIN held \ {path[2]} |-> held[sub] ]
                       ELSE pm.userOverrides[key] ]
        set == IF value = baseValue THEN cleaned
               ELSE SetProperty(pm.userOverrides, path, value)
        \* _cleanObject drops the objects that were empty before this call
        kept == { key \in DOMAIN set :
                    \/ key \in {path[1], "enabled"}
                    \/ DOMAIN set[key] # {} }
    IN  [pm EXCEPT !.userOverrides = [ key \in kept |-> set[key] ]]

\* status.isDirty as recordUserChange leaves it: !isEmpty(this._userOverrides)
IsDirty(pm) == pm.userOverrides # NoProfile

\* canvasReady, await profileManager.initialize(): the world settings, the
\* flag of the scene, the adjustments stored for the scene (a scene not seen
\* before has none), then applyEffectiveConfig
Initialize(sceneFlag) ==
    /\ ready = 0
    /\ ready' = 1
    /\ profile' = [profile EXCEPT !.defaultProfileName = profile.settings.defaultProfile,
                                  !.sceneProfile = sceneFlag,
                                  !.userOverrides = NoProfile]
    /\ ApplyEffectiveConfig(EffectiveConfigOf(profile'))
    /\ lastOp' = "Initialize"
    /\ UNCHANGED <<loadingScreen, tokens, screenEffects, inflight>>
    /\ UNCHANGED app

\* the onChange of a client setting: applyEffectiveConfig of the manager
SettingChange(settings) ==
    /\ ready = Done
    /\ profile' = [profile EXCEPT !.settings = settings]
    /\ ApplyEffectiveConfig(EffectiveConfigOf(profile'))
    /\ lastOp' = "SettingChange"
    /\ UNCHANGED <<loadingScreen, tokens, screenEffects, inflight>>
    /\ app.edits < MaxEdits
    /\ app' = Edited(app)
    /\ UNCHANGED ready

\* DebuggerEventHandler._triggerGlobalRefresh: effectTargetManager.refresh(),
\* then every layer's updateFromConfig(this.config)
TriggerGlobalRefresh(cfg) ==
    LET tg == DiscoverAllTargets(scene)
    IN  /\ targets' = tg
        /\ background' = BackgroundUpdateEffectTargets(background, tg)
        /\ pattern' = PatternUpdateFromConfig(pattern, cfg, failing)
        /\ iriPattern' = IriPatternUpdateFromConfig(iriPattern, cfg, failing)
        /\ cloud' = CloudUpdateFromConfig(CloudUpdateEffectTargets(cloud, tg), cfg)
        /\ dust' = DustUpdateFromConfig(DustUpdateEffectTargets(dust, tg), cfg)
        /\ heat' = HeatUpdateFromConfig(HeatUpdateEffectTargets(heat, tg), failing)
        /\ metallic' = MetallicUpdateFromConfig(
                           MetallicUpdateEffectTargets(metallic, tg), cfg)
        /\ iridescence' = IridescenceUpdateFromConfig(
                              IridescenceUpdateEffectTargets(iridescence, tg), cfg)
        /\ groundGlow' = GroundGlowUpdateFromConfig(groundGlow, cfg)
        /\ status' = StatusAfterConfig(status, pattern, iriPattern, heat, failing)
        /\ window' = << >>

\* DebuggerEventHandler._handleGenericInput(e): the change is recorded, written
\* into OVERLAY_CONFIG, and everything is refreshed
HandleGenericInput(path, value) ==
    /\ ready = Done
    /\ profile' = RecordUserChange(profile, path, value)
    /\ config' = SetProperty(config, path, value)
    /\ TriggerGlobalRefresh(config')
    /\ lastOp' = "HandleGenericInput"
    /\ UNCHANGED <<loadingScreen, tokens, screenEffects, inflight>>
    /\ app.edits < MaxEdits
    /\ app' = Edited(app)
    /\ UNCHANGED <<libwrapper, failing, screen, tokenMask, scene, frame, ready>>

\* ProfileManager.loadProfile(name): the profile is merged into OVERLAY_CONFIG
\* and becomes the user's adjustments of the scene
LoadProfile(name) ==
    /\ ready = Done
    /\ config' = MergeObject(config, WorldProfiles[name])
    /\ profile' = [profile EXCEPT !.userOverrides = WorldProfiles[name]]
    /\ lastOp' = "LoadProfile"
    /\ UNCHANGED <<loadingScreen, tokens, screenEffects, inflight>>
    /\ UNCHANGED groundGlow
    /\ app.edits < MaxEdits
    /\ app' = Edited(app)
    /\ UNCHANGED <<libwrapper, failing, screen, status, pattern, iriPattern, cloud,
                   dust, heat, metallic, tokenMask, iridescence, background, scene,
                   targets, ready, frame, window>>

\* ProfileManager.revertToSceneDefault()
RevertToSceneDefault ==
    /\ ready = Done
    /\ profile.sceneProfile # NoProfile
    /\ profile' = [profile EXCEPT !.userOverrides = NoProfile]
    /\ ApplyEffectiveConfig(EffectiveConfigOf(profile'))
    /\ lastOp' = "RevertToSceneDefault"
    /\ UNCHANGED <<loadingScreen, tokens, screenEffects, inflight>>
    /\ app.edits < MaxEdits
    /\ app' = Edited(app)
    /\ UNCHANGED ready

\* ProfileManager.revertToModuleDefault(): the scene profile is set aside
\* while the configuration is applied
RevertToModuleDefault ==
    /\ ready = Done
    /\ profile' = [profile EXCEPT !.userOverrides = NoProfile]
    /\ ApplyEffectiveConfig(EffectiveConfigOf([profile' EXCEPT !.sceneProfile = NoProfile]))
    /\ lastOp' = "RevertToModuleDefault"
    /\ UNCHANGED <<loadingScreen, tokens, screenEffects, inflight>>
    /\ app.edits < MaxEdits
    /\ app' = Edited(app)
    /\ UNCHANGED ready

\* ProfileManager.setDefaultProfile(name)
SetDefaultProfile(name) ==
    /\ ready = Done
    /\ profile' = [profile EXCEPT !.defaultProfileName = name,
                                  !.settings.defaultProfile = name]
    /\ lastOp' = "SetDefaultProfile"
    /\ UNCHANGED <<loadingScreen, tokens, screenEffects, inflight>>
    /\ UNCHANGED groundGlow
    /\ app.edits < MaxEdits
    /\ app' = Edited(app)
    /\ UNCHANGED <<libwrapper, failing, screen, config, status, pattern, iriPattern,
                   cloud, dust, heat, metallic, tokenMask, iridescence, background,
                   scene, targets, ready, frame, window>>

\* the canvas tears its layers down in the order it declares them
TearDownNext ==
    \E i \in DOMAIN DeclaredOrder :
        /\ \A j \in 1..(i - 1) : DeclaredOrder[j] \notin app.drawn
        /\ LayerTearDown(DeclaredOrder[i])

\* the next scene is drawn
SceneDraw == app.cycle < MaxScenes /\ CanvasDraw(DeclaredOrder)

InitProfile == InitWith({{}}, {SchedScene}, {DeclaredOrder}, {FALSE})

NextProfile ==
    \/ \E sceneFlag \in SceneFlags : Initialize(sceneFlag)
    \/ SetupAllGlobalFilters
    \/ ConfigureLayers
    \/ PreRenderPatterns
    \/ DiscoverTargets
    \/ CreateManagers
    \/ \E b \in BOOLEAN : SettingChange([profile.settings EXCEPT !.disableDistortion = b])
    \/ \E p \in {100, 50} : SettingChange([profile.settings EXCEPT !.heatIntensity = p])
    \/ \E b \in BOOLEAN : HandleGenericInput(<<"heatDistortion", "enabled">>, b)
    \/ \E name \in DOMAIN WorldProfiles : LoadProfile(name)
    \/ RevertToSceneDefault
    \/ RevertToModuleDefault
    \/ \E name \in DOMAIN WorldProfiles : SetDefaultProfile(name)
    \/ CanvasTearDown
    \/ TearDownNext
    \/ SceneDraw

SpecProfile == InitProfile /\ [][NextProfile]_vars

-----------------------------------------------------------------------------
(* Activation: a stage that is never throttled, over the scenes of a session *)

\* baseShine.animation.updateFrequency set to 0
ZeroFrequencyConfig ==
    [DefaultConfig EXCEPT !.baseShine.animation.updateFrequency = 0]

NextActivation ==
    \/ CanvasReady({ZeroFrequencyConfig})
    \/ \E deltaTime \in DeltaTimes : CycleTick(deltaTime)
    \/ CanvasTearDown
    \/ TearDownNext
    \/ SceneDraw

SpecActivation == InitProfile /\ [][NextActivation]_vars

-----------------------------------------------------------------------------
(* Textures: tiles whose maps load and tiles whose maps do not *)

TextureAssets == {AssetNamed("metal"), AssetNamed("bad"), AssetNamed("worn")}

InitTextures == InitWith({{}}, {SchedScene}, {DeclaredOrder}, {FALSE})

NextTextures ==
    \/ CanvasReady(TargetConfigs)
    \/ \E cfg \in TargetConfigs : Configure(cfg)
    \/ \E id \in TileIds, asset \in TextureAssets : PutTile(id, asset)
    \/ \E id \in TileIds : DeleteTile(id)

SpecTextures == InitTextures /\ [][NextTextures]_vars

-----------------------------------------------------------------------------
(* Out-of-range values: configurations the editor's sliders do not produce *)

ClampConfigs ==
    { [DefaultConfig EXCEPT !.baseShine.animation.updateFrequency = n,
                            !.cloudShadows.shadowIntensity = i,
                            !.cloudShadows.maskBlur = b] :
        n \in {-1, 0, DefaultUpdateFrequency},
        i \in {-1, DefaultShadowIntensity},
        b \in {-2, 0, 4} }

NextClamp ==
    \/ CanvasReady(ClampConfigs)
    \/ \E deltaTime \in DeltaTimes : StageTick(deltaTime)
    \/ \E cfg \in ClampConfigs : Configure(cfg)

SpecClamp == InitTextures /\ [][NextClamp]_vars

-----------------------------------------------------------------------------
(* The loading screen, when a step of canvasReady throws *)

\* a step of the canvasReady handler throws: the async handler has no try, its
\* promise is rejected and the steps after the throwing one never run
StepThrows ==
    /\ ready \in 0..(Done - 1)
    /\ ready' = Aborted
    /\ lastOp' = "StepThrows"
    /\ UNCHANGED <<libwrapper, failing, screen, config, status, pattern, iriPattern,
                   cloud, dust, heat, metallic, tokenMask, iridescence, background,
                   scene, targets, frame, app, window, groundGlow, profile,
                   loadingScreen, tokens, screenEffects, inflight>>

\* a scene change, also after a canvasReady that did not complete
SceneTearDown ==
    /\ ready \in {Done, Aborted}
    /\ app.phase = "drawn"
    /\ app.cycle < MaxScenes
    /\ app' = [app EXCEPT !.phase = "tearDown"]
    /\ lastOp' = "CanvasTearDown"
    /\ UNCHANGED <<libwrapper, failing, screen, config, status, pattern, iriPattern,
                   cloud, dust, heat, metallic, tokenMask, iridescence, background,
                   scene, targets, ready, frame, window, groundGlow, profile,
                   loadingScreen, tokens, screenEffects, inflight>>

NextLoading ==
    \/ CanvasReady({DefaultConfig})
    \/ StepThrows
    \/ \E deltaTime \in DeltaTimes : CycleTick(deltaTime)
    \/ SceneTearDown
    \/ TearDownNext
    \/ SceneDraw

\* the steps of canvasReady follow one another unless one of them throws
SpecLoading ==
    InitProfile /\ [][NextLoading]_vars /\ WF_vars(CanvasReady({DefaultConfig}))

-----------------------------------------------------------------------------
(* Tokens: they are created, deleted, hidden and shown while frames run *)

\* a token as renderMask reads it: token.visible, token.texture?.valid,
\* token.document.hidden
TokenStates ==
    { [visible |-> TRUE, valid |-> TRUE, hidden |-> FALSE],
      [visible |-> FALSE, valid |-> TRUE, hidden |-> FALSE],
      [visible |-> TRUE, valid |-> FALSE, hidden |-> FALSE],
      [visible |-> TRUE, valid |-> TRUE, hidden |-> TRUE] }

\* a token is created (the createToken hook requests an update) or one of the
\* properties renderMask reads changes (no hook of the manager is called)
PutToken(id, token) ==
    /\ ready = Done
    /\ IF id \in DOMAIN tokens THEN tokens[id] # token ELSE TRUE
    /\ tokens' = [ t \in DOMAIN tokens \cup {id} |->
                     IF t = id THEN token ELSE tokens[t] ]
    /\ tokenMask' = IF id \in DOMAIN tokens THEN tokenMask
                    ELSE RequestUpdate(tokenMask)
    /\ lastOp' = "PutToken"
    /\ UNCHANGED <<libwrapper, failing, screen, config, status, pattern, iriPattern,
                   cloud, dust, heat, metallic, iridescence, background, scene,
                   targets, ready, frame, app, window, groundGlow, profile,
                   loadingScreen, screenEffects, inflight>>

\* a token is deleted; the deleteToken hook requests an update
DeleteToken(id) ==
    /\ ready = Done
    /\ id \in DOMAIN tokens
    /\ tokens' = [ t \in DOMAIN tokens \ {id} |-> tokens[t] ]
    /\ tokenMask' = RequestUpdate(tokenMask)
    /\ lastOp' = "DeleteToken"
    /\ UNCHANGED <<libwrapper, failing, screen, config, status, pattern, iriPattern,
                   cloud, dust, heat, metallic, iridescence, background, scene,
                   targets, ready, frame, app, window, groundGlow, profile,
                   loadingScreen, screenEffects, inflight>>

NextTokens ==
    \/ CanvasReady({DefaultConfig})
    \/ \E deltaTime \in {1} : TargetTick(deltaTime)
    \/ \E id \in {TokenOrder[i] : i \in 1..Len(TokenOrder)}, token \in TokenStates :
          PutToken(id, token)
    \/ \E id \in {TokenOrder[i] : i \in 1..Len(TokenOrder)} : DeleteToken(id)

SpecTokens == InitTextures /\ [][NextTokens]_vars

-----------------------------------------------------------------------------
(* The filters of the stage: the module's and those of other code *)

\* the classes of the filters other code puts on canvas.stage: one the module
\* does not know, and PIXI.filters.AdvancedBloomFilter of the shared library
OtherClasses == {"OutlineFilter", "AdvancedBloomFilter"}

MaxOthers == 2

\* other code appends a filter of its own to canvas.stage.filters
StageFilterAdded(cls) ==
    /\ Len(screenEffects.others) < MaxOthers
    /\ LET filter == [owner |-> "other", n |-> Len(screenEffects.others) + 1, cls |-> cls]
       IN screenEffects' = [screenEffects EXCEPT !.stage = Append(@, filter),
                                                 !.others = Append(@, filter)]
    /\ lastOp' = "StageFilterAdded"
    /\ UNCHANGED <<libwrapper, failing, screen, config, status, pattern, iriPattern,
                   cloud, dust, heat, metallic, tokenMask, iridescence, background,
                   scene, targets, ready, frame, app, window, groundGlow, profile,
                   loadingScreen, tokens, inflight>>

\* a call of ScreenEffectsManager.removeFilter(key)
RemoveFilterCall(key) ==
    /\ screenEffects' = RemoveFilter(screenEffects, key)
    /\ screenEffects' # screenEffects
    /\ lastOp' = "RemoveFilter"
    /\ UNCHANGED <<libwrapper, failing, screen, config, status, pattern, iriPattern,
                   cloud, dust, heat, metallic, tokenMask, iridescence, background,
                   scene, targets, ready, frame, app, window, groundGlow, profile,
                   loadingScreen, tokens, inflight>>

InitFilters == InitWith({{}, {"HeatDistortionFilter"}}, {SchedScene}, {DeclaredOrder}, {FALSE})

NextFilters ==
    \/ CanvasReady({DefaultConfig})
    \/ \E cls \in OtherClasses : StageFilterAdded(cls)
    \/ \E key \in {"vignette", "advancedBloom"} : RemoveFilterCall(key)
    \/ SceneTearDown
    \/ TearDownNext
    \/ SceneDraw

SpecFilters == InitFilters /\ [][NextFilters]_vars

-----------------------------------------------------------------------------
(* Overlapping refreshes: the tile hooks do not await refresh(), so several  *)
(* refreshes and several updateEffectTargets calls of one layer can wait at  *)
(* their awaits at once. A call that needs no texture runs on in microtasks, *)
(* before any other event; a call that loads a texture waits for the loader  *)

MaxRefreshes == 2

\* the order of new Map([['background', ...], ...targets.tiles.entries()])
TargetOrder == <<"background", "T1", "T2">>

\* the sprite maps of a layer in the order its loop visits them, and its map
LayerSlots(layer) ==
    IF layer = "cloud" THEN <<"maskSprites">>
    ELSE <<"shineSprites", "bloomSprites", "starburstSprites">>

LayerKey(layer) == IF layer = "cloud" THEN "outdoors" ELSE "specular"

\* the ids the loop of a call does not skip, in the order it visits them
ValidSeq(tg, key) ==
    LET IsValid(id) == id \in ValidTargetIds(tg, key)
    IN SelectSeq(TargetOrder, IsValid)

\* the layers and the waiting calls a step of a call works on
Working == [cloud |-> cloud, metallic |-> metallic,
            calls |-> inflight.calls, wroteDestroyed |-> inflight.wroteDestroyed]

\* the loops after the for loop: the sprites of the ids that are not valid
\* are destroyed and deleted; a call that waits with one of them in hand is
\* left with a destroyed sprite
Prune(w, layer, valid) ==
    LET slots == LayerSlots(layer)
        pruned == [w EXCEPT ![layer] =
                    [f \in DOMAIN w[layer] |->
                        IF \E k \in 1..Len(slots) : slots[k] = f
                        THEN [id \in DOMAIN w[layer][f] \cap valid |-> w[layer][f][id]]
                        ELSE w[layer][f]]]
        marked == { IF c.layer = layer /\ c.id \notin valid
                    THEN [c EXCEPT !.dangling = TRUE] ELSE c : c \in w.calls }
        done == [pruned EXCEPT !.calls = marked]
    IN IF layer = "cloud" THEN [done EXCEPT !.cloud._needsMaskUpdate = TRUE] ELSE done

\* the for loop of updateEffectTargets from the i-th valid id and the k-th
\* sprite map on: the sprite is found or created; when its texture has
\* another path the call waits for loadTexture, otherwise it goes on
RECURSIVE Advance(_, _, _, _, _, _)
Advance(w, layer, n, tg, i, k) ==
    LET valid == ValidSeq(tg, LayerKey(layer))
        slots == LayerSlots(layer)
    IN  IF i > Len(valid) THEN Prune(w, layer, { valid[j] : j \in 1..Len(valid) })
        ELSE IF k > Len(slots) THEN Advance(w, layer, n, tg, i + 1, 1)
        ELSE LET id == valid[i]
                 f == slots[k]
                 sprites == w[layer][f]
                 found == IF id \in DOMAIN sprites THEN sprites
                          ELSE [t \in DOMAIN sprites \cup {id} |->
                                  IF t = id THEN [texture |-> EMPTY] ELSE sprites[t]]
                 held == [w EXCEPT ![layer][f] = found]
             IN  IF AllTargets(tg)[id].baseTexturePath # found[id].texture.src
                 THEN [held EXCEPT !.calls = @ \cup
                         {[layer |-> layer, n |-> n, tg |-> tg, i |-> i, k |-> k,
                           id |-> id, dangling |-> FALSE]}]
                 ELSE Advance(held, layer, n, tg, i, k + 1)

\* layer.updateEffectTargets(targets) up to its first wait
StartCall(w, layer, n, tg) ==
    IF layer = "metallic" /\ ~w.metallic.visible THEN w
    ELSE Advance(w, layer, n, tg, 1, 1)

\* loadTexture has settled: the texture, or EMPTY when loading failed, is
\* assigned to the sprite in hand and the loop goes on. A destroyed sprite is
\* assigned to all the same, and what the destroyed sprite does then is not
\* the module's: the call throws or goes on
ResumeCall(w, c, throws) ==
    LET f == LayerSlots(c.layer)[c.k]
        data == AllTargets(c.tg)[c.id]
        loaded == IF LayerKey(c.layer) \in data.broken THEN EMPTY
                  ELSE [valid |-> TRUE, src |-> data.baseTexturePath]
        rest == [w EXCEPT !.calls = @ \ {c}]
    IN  IF c.dangling
        THEN LET wrote == [rest EXCEPT !.wroteDestroyed = TRUE]
             IN IF throws THEN wrote
                ELSE Advance(wrote, c.layer, c.n, c.tg, c.i, c.k + 1)
        ELSE Advance([rest EXCEPT ![c.layer][f][c.id].texture = loaded],
                     c.layer, c.n, c.tg, c.i, c.k + 1)

OverlapUnchanged ==
    UNCHANGED <<libwrapper, failing, screen, config, status, pattern, iriPattern,
                tokenMask, ready, frame, app, window, profile, loadingScreen,
                tokens, screenEffects>>

\* a tile is created, changed or deleted: the hook starts a refresh and does
\* not wait for it
RefreshStarted ==
    /\ inflight.started < MaxRefreshes
    /\ inflight' = [inflight EXCEPT
                        !.started = @ + 1,
                        !.refreshes = @ \cup {[n |-> inflight.started + 1,
                                               pc |-> "discovering",
                                               result |-> NoTargets]}]
    /\ OverlapUnchanged
    /\ UNCHANGED <<cloud, dust, heat, metallic, iridescence, background, targets,
                   groundGlow>>

TileHookPut(id, asset) ==
    /\ ready = Done
    /\ IF id \in DOMAIN scene.tiles THEN scene.tiles[id] # asset ELSE TRUE
    /\ scene' = [scene EXCEPT !.tiles =
                    [t \in DOMAIN scene.tiles \cup {id} |->
                        IF t = id THEN asset ELSE scene.tiles[t]]]
    /\ RefreshStarted
    /\ lastOp' = "TileHookPut"

TileHookDelete(id) ==
    /\ ready = Done
    /\ id \in DOMAIN scene.tiles
    /\ scene' = [scene EXCEPT !.tiles = [t \in DOMAIN scene.tiles \ {id} |-> scene.tiles[t]]]
    /\ RefreshStarted
    /\ lastOp' = "TileHookDelete"

\* loader.discoverAllTargets() of a refresh has read the scene
RefreshDiscovered ==
    \E r \in inflight.refreshes :
        /\ r.pc = "discovering"
        /\ inflight' = [inflight EXCEPT !.refreshes =
                            (@ \ {r}) \cup {[r EXCEPT !.pc = "discovered",
                                                      !.result = DiscoverAllTargets(scene)]}]
        /\ lastOp' = "RefreshDiscovered"
        /\ OverlapUnchanged
        /\ UNCHANGED <<cloud, dust, heat, metallic, iridescence, background, targets,
                       groundGlow, scene>>

\* the refresh goes on after its first await: this.targets is assigned and
\* broadcastUpdate calls every layer's updateEffectTargets; the calls of the
\* cloud and the metallic layer are followed to their waits, those of the
\* other layers are taken as a whole
RefreshBroadcast ==
    \E r \in inflight.refreshes :
        /\ r.pc = "discovered"
        /\ targets' = r.result
        /\ background' = BackgroundUpdateEffectTargets(background, targets')
        /\ heat' = HeatUpdateEffectTargets(heat, targets')
        /\ iridescence' = IridescenceUpdateEffectTargets(iridescence, targets')
        /\ dust' = DustUpdateEffectTargets(dust, targets')
        /\ groundGlow' = GroundGlowUpdateFromConfig(groundGlow, config)
        /\ LET w == StartCall(StartCall(Working, "metallic", r.n, targets'),
                              "cloud", r.n, targets')
           IN /\ cloud' = w.cloud
              /\ metallic' = w.metallic
              /\ inflight' = [inflight EXCEPT
                                !.refreshes = (@ \ {r}) \cup {[r EXCEPT !.pc = "broadcast"]},
                                !.calls = w.calls,
                                !.supplied = [l \in {"cloud", "metallic"} |-> targets']]
        /\ lastOp' = "RefreshBroadcast"
        /\ OverlapUnchanged
        /\ UNCHANGED scene

\* a waiting call goes on
CallResumed ==
    \E c \in inflight.calls, throws \in BOOLEAN :
        /\ throws => c.dangling
        /\ LET w == ResumeCall(Working, c, throws)
           IN /\ cloud' = w.cloud
              /\ metallic' = w.metallic
              /\ inflight' = [inflight EXCEPT !.calls = w.calls,
                                              !.wroteDestroyed = w.wroteDestroyed]
        /\ lastOp' = "CallResumed"
        /\ OverlapUnchanged
        /\ UNCHANGED <<dust, heat, iridescence, background, targets, groundGlow, scene>>

\* Promise.all of broadcastUpdate has settled and the refresh returns
RefreshCompleted ==
    \E r \in inflight.refreshes :
        /\ r.pc = "broadcast"
        /\ \A c \in inflight.calls : c.n # r.n
        /\ inflight' = [inflight EXCEPT !.refreshes = @ \ {r}]
        /\ lastOp' = "RefreshCompleted"
        /\ OverlapUnchanged
        /\ UNCHANGED <<cloud, dust, heat, metallic, iridescence, background, targets,
                       groundGlow, scene>>

OverlapAssets == { AssetNamed("metal"), AssetNamed("yard") }

NextOverlap ==
    \/ CanvasReady({DefaultConfig})
    \/ \E id \in TileIds, asset \in OverlapAssets : TileHookPut(id, asset)
    \/ \E id \in TileIds : TileHookDelete(id)
    \/ RefreshDiscovered
    \/ RefreshBroadcast
    \/ CallResumed
    \/ RefreshCompleted

SpecOverlap == InitTextures /\ [][NextOverlap]_vars

-----------------------------------------------------------------------------
(* Properties of the scheduler *)

\* the operations that call the _onAnimate of the pattern layers
PatternFrameOps == {"Tick", "PreRenderPatterns", "CreateManagers"}

\* the operations that call the _onAnimate of every layer
LayerFrameOps == {"Tick", "CreateManagers"}

\* C1: a pattern stage whose updateFrequency is 0 renders on every frame
\* callback, whether or not its dirty flag is set.
C1_ZeroFrequencyRendersEveryFrame ==
    (lastOp \in PatternFrameOps /\ pattern.updateFrequency = 0) => pattern.didRender

\* C2: in every frame callback of a stage that has its shader and an
\* updateFrequency N >= 1, the stage renders if and only if its dirty flag was
\* set when the callback started or its frame counter, as incremented by the
\* callback, is a multiple of N.  The stages are the pattern stage and the
\* token mask.
C2_RendersIffDirtyOrNthFrame ==
    [][ /\ ( /\ lastOp' \in PatternFrameOps
             /\ pattern.shinePatternFilter # NULL
             /\ pattern.updateFrequency >= 1 )
           => ( pattern'.didRender <=>
                  ( pattern._needsUpdate
                    \/ pattern'._frameCount % pattern.updateFrequency = 0 ) )
        /\ ( lastOp' = "Tick" /\ tokenMask.created )
           => ( tokenMask'.didRender <=>
                  ( tokenMask._needsUpdate
                    \/ tokenMask'._frameCount % tokenMask.updateFrequency = 0 ) )
      ]_vars

\* a tick in which the pattern stage, at frequency MaxFreq, rendered on a
\* multiple of its frequency while the token mask, clean and off its own
\* multiple, did not render
C2_Witness ==
    /\ lastOp = "Tick"
    /\ pattern.shinePatternFilter # NULL
    /\ pattern.updateFrequency = MaxFreq
    /\ pattern._frameCount % MaxFreq = 0
    /\ pattern.didRender
    /\ tokenMask.created
    /\ tokenMask._frameCount % TokenUpdateFrequency # 0
    /\ ~tokenMask.didRender

RECURSIVE Renders(_)
Renders(w) == IF w = << >> THEN 0 ELSE (IF Head(w) THEN 1 ELSE 0) + Renders(Tail(w))

\* the last n frames of the window
LastFrames(w, n) == SubSeq(w, Len(w) - n + 1, Len(w))

\* C3: with updateFrequency N > 0 and the shader compiled, the pattern stage
\* renders at least 2 and at most 3 times in any 2N consecutive frame
\* callbacks between which no pan, resize or configuration change occurs.
C3_RendersPerWindow ==
    LET N == pattern.updateFrequency
    IN ( pattern.shinePatternFilter # NULL /\ N > 0 /\ Len(window) >= 2 * N )
       => Renders(LastFrames(window, 2 * N)) \in 2..3

\* a window of 2N frames with three renders, and N > 1
C3_Witness ==
    /\ pattern.shinePatternFilter # NULL
    /\ pattern.updateFrequency = 2
    /\ Len(window) >= 4
    /\ Renders(LastFrames(window, 4)) = 3

\* C7: in every frame in which the pattern stage renders and samples the
\* noise texture, its noise manager has rendered that texture earlier in the
\* same frame.
C7_NoiseRenderedBeforePattern ==
    ( lastOp \in PatternFrameOps /\ pattern.didRender /\ pattern.u_noise_enabled )
    => pattern.noiseTextureManager.didRender

-----------------------------------------------------------------------------
(* Properties of the stages *)

\* the textures a layer's last _onAnimate wrote
PatternWrote == pattern.didRender \/ pattern.noiseTextureManager.didRender

IriPatternWrote == iriPattern.didRender \/ iriPattern.distortionNoiseManager.didRender

CloudWrote == cloud.didRender \/ cloud.didBlur

DustWrote == dust.didRender \/ dust.didBlur

HeatWrote == heat.didRender \/ heat.noiseManager.didRender

\* C4: once the enabled flag of a stage, or the global enabled flag, is false,
\* a frame callback writes none of that stage's textures (pattern, iridescence
\* pattern, their noise, the cloud, dust and heat masks).
C4_DisabledStageWritesNothing ==
    /\ ( lastOp \in PatternFrameOps /\ ~(config.enabled /\ config.baseShine.enabled) )
       => ~PatternWrote
    /\ ( lastOp \in PatternFrameOps /\ ~(config.enabled /\ config.iridescence.enabled) )
       => ~IriPatternWrote
    /\ ( lastOp \in LayerFrameOps /\ ~(config.enabled /\ config.cloudShadows.enabled) )
       => ~CloudWrote
    /\ ( lastOp \in LayerFrameOps /\ ~(config.enabled /\ config.dustMotes.enabled) )
       => ~DustWrote
    /\ ( lastOp \in LayerFrameOps /\ ~(config.enabled /\ config.heatDistortion.enabled) )
       => ~HeatWrote

\* C5: immediately after a resize to (W, H) every render texture of a stage or
\* manager has size (W, H) and the dirty flag of its scheduler is set.
C5_ResizeReachesEveryTexture ==
    lastOp = "Resize" =>
        /\ pattern.renderTexture.size = screen /\ pattern._needsUpdate
        /\ pattern.noiseTextureManager.size = screen
        /\ iriPattern.renderTexture.size = screen /\ iriPattern._needsUpdate
        /\ iriPattern.distortionNoiseManager.size = screen
        /\ cloud.combinedMaskTexture.size = screen /\ cloud.blurredMaskTexture.size = screen
        /\ cloud._needsMaskUpdate
        /\ dust.combinedDustMaskTexture.size = screen /\ dust.blurredMaskTexture.size = screen
        /\ dust._needsMaskUpdate
        /\ heat.combinedMaskTexture.size = screen /\ heat.noiseManager.size = screen
        /\ heat._needsMaskUpdate
        /\ tokenMask.created => ( tokenMask.renderTexture.size = screen
                                  /\ tokenMask._needsUpdate )

\* the operations that hand OVERLAY_CONFIG to every layer's updateFromConfig
ConfigOps == {"ProfileInitialize", "ConfigureLayers", "Configure"}

\* C6: when the configuration that was applied last is applied again,
\* unchanged, no dirty flag of any stage goes from false to true.
C6_SameConfigMarksNothingDirty ==
    [][ ( lastOp' \in ConfigOps /\ config' = config /\ ready >= 1 )
        => /\ pattern'._needsUpdate => pattern._needsUpdate
           /\ iriPattern'._needsUpdate => iriPattern._needsUpdate
           /\ cloud'._needsMaskUpdate => cloud._needsMaskUpdate
           /\ dust'._needsMaskUpdate => dust._needsMaskUpdate
           /\ heat'._needsMaskUpdate => heat._needsMaskUpdate
      ]_vars

-----------------------------------------------------------------------------
(* Properties of the mask consumers and of the targets *)

\* a frame callback of the cloud (dust) layer found its filter compiled, the
\* layer visible and no mask sprite with a valid texture
CloudWithoutSources ==
    /\ lastOp \in LayerFrameOps
    /\ cloud.cloudFilter # NULL /\ cloud.visible
    /\ ~HasActive(cloud.maskSprites)

DustWithoutSources ==
    /\ lastOp \in LayerFrameOps
    /\ dust.moteFilter # NULL /\ dust.visible
    /\ ~HasActive(dust.dustSprites)

SpriteIds ==
    DOMAIN metallic.shineSprites \cup DOMAIN metallic.bloomSprites
    \cup DOMAIN metallic.starburstSprites \cup DOMAIN cloud.maskSprites
    \cup DOMAIN dust.dustSprites \cup DOMAIN heat.heatSprites
    \cup DOMAIN iridescence.targetContainers \cup DOMAIN background.effectSprites

\* the operations that end with a completed effectTargetManager.refresh()
RefreshOps == {"DiscoverTargets", "PutTile", "DeleteTile"}

\* C9: after a completed refresh no sprite map of any layer contains the id of
\* a tile that is no target any more, whatever the layer's visibility.
C9_RemovedTileLeavesNoSprite ==
    lastOp \in RefreshOps =>
        \A id \in TileIds : id \notin DOMAIN targets.tiles => id \notin SpriteIds

-----------------------------------------------------------------------------
(* Properties of the failures *)

\* some shader status entry is in the state 'error'
ErrorReported == \E key \in ShaderKeys : status[key] = "error"

\* C10: a stage whose shader failed to compile reports the status 'error' and
\* renders nothing, and every stage whose shader compiled has been evaluated
\* in every frame.  The metallic and dust layers have no status entry that
\* they write, so for them any entry in the state 'error' counts as a report.
C10_CompileFailureIsLocal ==
    /\ pattern.shinePatternFilter = NULL
       => status.baseShine = "error" /\ ~pattern.renderTexture.written
    /\ iriPattern.iridescenceFilter = NULL
       => status.iridescence = "error" /\ ~iriPattern.renderTexture.written
    /\ iriPattern.distortionNoiseManager.filter = NULL
       => status.noise = "error" /\ ~iriPattern.distortionNoiseManager.written
    /\ cloud.cloudFilter = NULL
       => status.cloudShadows = "error" /\ ~cloud.combinedMaskTexture.written
    /\ ( ready >= 2 /\ heat.heatFilter = NULL )
       => status.heat = "error" /\ ~heat.combinedMaskTexture.written
    /\ dust.moteFilter = NULL
       => ErrorReported /\ ~dust.combinedDustMaskTexture.written
    /\ metallic.shineFilter = NULL => ErrorReported
    /\ pattern.shinePatternFilter # NULL => pattern._frameCount = frame
    /\ iriPattern.iridescenceFilter # NULL => iriPattern.u_time = frame


C12_FailedStageStaysDisabled ==
    [][ /\ pattern.shinePatternFilter = NULL
           => pattern'.shinePatternFilter = NULL /\ ~pattern'.didRender
        /\ iriPattern.iridescenceFilter = NULL
           => iriPattern'.iridescenceFilter = NULL /\ ~iriPattern'.didRender
        /\ cloud.cloudFilter = NULL
           => cloud'.cloudFilter = NULL /\ ~cloud'.didRender
        /\ dust.moteFilter = NULL
           => dust'.moteFilter = NULL /\ ~dust'.didRender
        /\ iriPattern.distortionNoiseManager.filter = NULL
           => /\ iriPattern'.distortionNoiseManager.filter = NULL
              /\ ~iriPattern'.distortionNoiseManager.didRender
      ]_vars


\* C13: whenever the pattern stage renders while its noise input is
\* unavailable (the noise manager has no compiled filter, or its target has
\* never been rendered), it renders without sampling the noise target.
C13_FallsBackWithoutNoise ==
    ( /\ lastOp \in PatternFrameOps
      /\ pattern.didRender
      /\ \/ pattern.noiseTextureManager.filter = NULL
         \/ ~pattern.noiseTextureManager.written )
    => ~( pattern.u_noise_enabled /\ pattern.u_noiseMap = "noise" )


-----------------------------------------------------------------------------
(* Properties of the status registry *)

\* C14: once the canvas is ready, whenever an input of the noise-to-shine
\* pipeline is missing (the noise is switched off, or the noise shader is not
\* ok) the 'noiseToShine' entry holds what the pipeline-health evaluation
\* reports for it, 'disabled' or 'error', not its initial 'inactive'.
C14_MissingInputIsReported ==
    ( ready = Done /\ EvaluatePipelines(config, status) # "ok" )
    => status.noiseToShine = EvaluatePipelines(config, status)


-----------------------------------------------------------------------------
(* Properties of the canvas cycle *)

\* the frame callbacks, hooks and listeners that are registered
LiveCallbacks == Len(app.ticker) + Len(app.hooks) + Cardinality(app.resize)

\* C15: after the canvas has torn a scene down no frame callback, no resize
\* listener and no canvasPan or token hook is left registered.
C15_TearDownLeavesNoCallback ==
    ( app.phase = "tearDown" /\ app.drawn = {} ) => LiveCallbacks = 0


\* C16: no RenderTexture is destroyed while a stage that takes it is still
\* live: as long as the frame callback of the metallic, dust or iridescence
\* layer is on the ticker, the texture of its pattern layer exists.
C16_NoLiveStageOnDestroyedTarget ==
    \A consumer \in DOMAIN ProducerOf :
        Registered(consumer) => ProducerOf[consumer] \notin app.destroyed


\* the place of a callback on the ticker; callbacks run in this order
TickerIndex(name) == CHOOSE i \in DOMAIN app.ticker : app.ticker[i] = name

\* C17: whatever the order in which the canvas drew the layers, the frame
\* callback of each consumer (metallic, dust, iridescence) runs after the
\* frame callback of the pattern layer that produces its input.
C17_ProducerCallbackRunsFirst ==
    \A consumer \in DOMAIN ProducerOf :
        ( Registered(consumer) /\ Registered(ProducerOf[consumer]) )
        => TickerIndex(ProducerOf[consumer]) < TickerIndex(consumer)


-----------------------------------------------------------------------------
(* Ownership of the render textures *)

\* the render textures of the stages that have never been rendered into
Unwritten ==
    {name \in {"pattern", "patternNoise", "iriPattern", "iriNoise", "cloudMask",
               "cloudBlur", "dustMask", "dustBlur", "heatMask", "heatNoise",
               "tokenMask"} :
        ~( CASE name = "pattern" -> pattern.renderTexture.written
             [] name = "patternNoise" -> pattern.noiseTextureManager.written
             [] name = "iriPattern" -> iriPattern.renderTexture.written
             [] name = "iriNoise" -> iriPattern.distortionNoiseManager.written
             [] name = "cloudMask" -> cloud.combinedMaskTexture.written
             [] name = "cloudBlur" -> cloud.blurredMaskTexture.written
             [] name = "dustMask" -> dust.combinedDustMaskTexture.written
             [] name = "dustBlur" -> dust.blurredMaskTexture.written
             [] name = "heatMask" -> heat.combinedMaskTexture.written
             [] name = "heatNoise" -> heat.noiseManager.written
             [] name = "tokenMask" -> tokenMask.renderTexture.written )}

-----------------------------------------------------------------------------
(* The states of the status entries and their notifications *)

\* the states the entries of a registry hold
StatesOf(st) ==
    {st[key] : key \in ShaderKeys \cup {"noiseToShine"}}
    \cup {st.textures[key] : key \in SuffixKeys}

\* the entries whose state differs between two registries
ChangedEntries(old, new) ==
    {<<"shaders", key>> : key \in {k \in ShaderKeys : old[k] # new[k]}}
    \cup {<<"pipelines", key>> : key \in {k \in {"noiseToShine"} : old[k] # new[k]}}
    \cup {<<"textures", key>> : key \in {k \in SuffixKeys : old.textures[k] # new.textures[k]}}

-----------------------------------------------------------------------------
(* Properties of the configuration *)

\* C20: a key of the applied configuration tree that is not one of the
\* recognized options is ignored: the live configuration never holds a key
\* the module defaults do not have.
C20_UnknownKeysIgnored == DOMAIN config \subseteq DOMAIN DefaultConfig

-----------------------------------------------------------------------------
(* The configuration of a scene *)

\* C21: for a scene with no scene profile, no user overrides and the client
\* settings at their defaults, the live configuration once canvasReady has
\* finished is the shipped module defaults, whatever was loaded before
C21_PlainSceneGetsDefaults ==
    ( /\ ready = Done
      /\ lastOp = "CreateManagers"
      /\ profile.sceneProfile = NoProfile
      /\ profile.userOverrides = NoProfile
      /\ profile.settings.disableDistortion = FALSE
      /\ profile.settings.heatIntensity = 100 )
    => config = DefaultConfig

\* C23: while the client setting 'Disable Screen Distortion' is on, heat
\* distortion is disabled in the live configuration, whatever profile is
\* applied or loaded, whatever the editor is given and after every revert
C23_DistortionStaysDisabled ==
    profile.settings.disableDistortion => ~config.heatDistortion.enabled

\* the scene's own setting: the shipped defaults, the scene profile over them,
\* the user's overrides over both
SceneSetting == MergeObject(MergeObject(DefaultConfig, profile.sceneProfile),
                            profile.userOverrides)

\* C24: with the client intensity of heat distortion at p percent, the live
\* intensity is the scene's setting times p/100 after every scene load and
\* every change of a setting
C24_IntensityIsPercentOfScene ==
    lastOp \in {"Initialize", "SettingChange"}
    => config.heatDistortion.intensity * 100 =
           SceneSetting.heatDistortion.intensity * profile.settings.heatIntensity

\* C25: once a profile has been set as the default profile, the next scene
\* initialization applies it: a scene without a profile of its own comes up
\* with the default profile's configuration under the client overrides
C25_DefaultProfileIsLoaded ==
    ( /\ lastOp = "Initialize"
      /\ app.cycle > 0
      /\ profile.settings.defaultProfile \in DOMAIN WorldProfiles
      /\ profile.sceneProfile = NoProfile )
    => config = ClientOverridesApply(
                    MergeObject(profile.moduleDefaults,
                                WorldProfiles[profile.settings.defaultProfile]),
                    profile.settings)

-----------------------------------------------------------------------------
(* Visibility of the effect layers *)

\* C22: after updateFromConfig(c) each effect layer is visible exactly when
\* c.enabled and the stage's own enabled flag are both true, and the ground
\* glow only when the illumination buffer API is available as well
C22_VisibleIffEnabled ==
    lastOp \in ConfigOps
    => /\ cloud.visible <=> (config.enabled /\ config.cloudShadows.enabled)
       /\ dust.visible <=> (config.enabled /\ config.dustMotes.enabled)
       /\ metallic.visible <=> (config.enabled /\ config.baseShine.enabled)
       /\ iridescence.visible <=> (config.enabled /\ config.iridescence.enabled)
       /\ groundGlow.visible <=> (config.enabled /\ config.groundGlow.enabled
                                  /\ groundGlow.api)

\* a configuration was applied that switches the cloud shadows off and the
\* ground glow on, with the illumination buffer available
C22_Witness ==
    /\ lastOp = "Configure"
    /\ config.enabled /\ ~config.cloudShadows.enabled
    /\ ~cloud.visible
    /\ dust.visible
    /\ groundGlow.visible

-----------------------------------------------------------------------------
(* Accumulated time *)

\* frame callbacks the cloud layer has been sent: those of the pattern layers
\* but the pre-render of canvasReady, which goes to the pattern layers alone
CloudFrames == frame - (IF ready >= 4 THEN 1 ELSE 0)

\* C26: the time value of every stage is the sum of the deltas of all its
\* frame callbacks, those in which it was throttled, disabled or without a
\* mask and did not render included
C26_TimeIsSumOfDeltas ==
    /\ pattern.shinePatternFilter # NULL => pattern.u_time = frame
    /\ iriPattern.iridescenceFilter # NULL => iriPattern.u_time = frame
    /\ cloud.cloudFilter # NULL => cloud.u_time = CloudFrames

-----------------------------------------------------------------------------
(* The blur pass of the mask compositors *)

-----------------------------------------------------------------------------
(* Sprites and bindings *)

\* the ids that have a sprite or a container in each layer
LayerSprites ==
    [ background |-> DOMAIN background.effectSprites,
      cloud |-> DOMAIN cloud.maskSprites,
      dust |-> DOMAIN dust.dustSprites,
      heat |-> DOMAIN heat.heatSprites,
      iridescence |-> DOMAIN iridescence.targetContainers,
      metallic |-> DOMAIN metallic.shineSprites ]

\* the ids bound to each layer: the targets that carry the layer's texture
LayerBindings ==
    [ background |-> ValidTargetIds(targets, "base"),
      cloud |-> ValidTargetIds(targets, "outdoors"),
      dust |-> ValidTargetIds(targets, "dust"),
      heat |-> ValidTargetIds(targets, "heat"),
      iridescence |-> ValidTargetIds(targets, "iridescence"),
      metallic |-> ValidTargetIds(targets, "specular") ]

\* C28: sprites are reused by target id: in every layer a sprite is created or
\* destroyed only in a step in which its target id enters or leaves the ids
\* bound to the layer, so a refresh with unchanged bindings creates and
\* destroys nothing
C28_SpritesFollowBindings ==
    [][ \A layer \in DOMAIN LayerSprites :
            \A id \in {"background"} \cup TileIds :
                ( (id \in LayerSprites[layer]) # (id \in LayerSprites'[layer]) )
                => ( (id \in LayerBindings[layer]) # (id \in LayerBindings'[layer]) )
      ]_vars

-----------------------------------------------------------------------------
(* Invalidation *)

\* a camera pan, a viewport resize, a configuration handed to the layers
InvalidatingOps == {"Pan", "Resize", "Configure"}

\* C29: every camera pan, viewport resize and configuration change marks the
\* pattern stage dirty, and the stage renders on the frame callback that
\* follows, whatever its throttle, with libWrapper and without
C29_InvalidationRendersNextFrame ==
    [][ pattern.shinePatternFilter # NULL
        => /\ lastOp' \in InvalidatingOps => pattern'._needsUpdate
           /\ ( lastOp \in InvalidatingOps /\ lastOp' = "Tick" ) => pattern'.didRender
      ]_vars

-----------------------------------------------------------------------------
(* The first frame after activation *)

\* C30: an enabled pattern stage with updateFrequency = 0 has, after exactly
\* one frame callback since the scene was drawn, rendered its render texture
\* and counted one frame
C30_FirstFrameRenders ==
    ( /\ app.phase = "drawn"
      /\ frame = 1
      /\ pattern.shinePatternFilter # NULL
      /\ pattern.updateFrequency = 0
      /\ config.enabled /\ config.baseShine.enabled )
    => ( pattern.renderTexture.written /\ pattern._frameCount = 1 )

-----------------------------------------------------------------------------
(* Textures that fail to load *)

\* the sprites of each layer by target id, and the texture key each layer reads
LayerTextures ==
    [ background |-> background.effectSprites,
      cloud |-> cloud.maskSprites,
      dust |-> dust.dustSprites,
      heat |-> heat.heatSprites,
      iridescence |-> iridescence.targetContainers,
      metallic |-> metallic.shineSprites ]

LayerKeys ==
    [ background |-> "base", cloud |-> "outdoors", dust |-> "dust",
      heat |-> "heat", iridescence |-> "iridescence", metallic |-> "specular" ]

\* the layers whose updateEffectTargets does not return early
Shown(layer) ==
    IF layer = "metallic" THEN metallic.visible
    ELSE IF layer = "iridescence" THEN iridescence.visible
    ELSE TRUE

\* after a refresh the sprite of target id in the layer carries the empty
\* texture when its texture fails to load and the loaded texture otherwise
FallsBack(layer, id) ==
    LET data == AllTargets(targets)[id]
    IN  LayerTextures[layer][id].texture =
            IF LayerKeys[layer] \in data.broken THEN EMPTY
            ELSE [valid |-> TRUE, src |-> data.baseTexturePath]

\* C31: after a refresh in which the texture of a target fails to load, that
\* target's sprite carries the empty texture, the sprites of all other targets
\* carry their loaded textures, and the refresh has completed: every layer
\* holds a sprite for exactly the targets bound to it
C31_FailedLoadFallsBackToEmpty ==
    lastOp \in RefreshOps =>
        \A layer \in DOMAIN LayerTextures :
            Shown(layer) =>
                /\ DOMAIN LayerTextures[layer] = LayerBindings[layer]
                /\ \A id \in DOMAIN LayerTextures[layer] : FallsBack(layer, id)

\* C32: an absent texture mapping is no error: after a refresh, whatever the
\* number of targets, a target that lacks the texture of an effect has no
\* sprite in that effect's layer, and no shader entry and no texture entry of
\* the status is in the state 'error'
C32_AbsentMappingIsNoError ==
    lastOp \in RefreshOps =>
        /\ \A layer \in DOMAIN LayerTextures :
               \A id \in {"background"} \cup TileIds :
                   id \notin LayerBindings[layer]
                   => id \notin DOMAIN LayerTextures[layer]
        /\ ~ErrorReported
        /\ \A key \in SuffixKeys : status.textures[key] # "error"

-----------------------------------------------------------------------------
(* Out-of-range configuration values *)

\* C33: out-of-range values are clamped: after a configuration was handed to
\* the layers the pattern stage's updateFrequency, the cloud stage's shadow
\* intensity and the blur of its mask blur filter are all >= 0, also when the
\* configuration supplies negative values
C33_ValuesAreClamped ==
    ( lastOp \in ConfigOps /\ pattern.shinePatternFilter # NULL
      /\ cloud.cloudFilter # NULL )
    => /\ pattern.updateFrequency >= 0
       /\ cloud.u_shadowIntensity >= 0
       /\ cloud.maskBlur >= 0

-----------------------------------------------------------------------------
(* The loading screen *)

\* C34: the scene never stays blank: a loading screen that is shown is
\* eventually hidden and removed, also when a step of canvasReady fails
C34_LoadingScreenIsRemoved == loadingScreen.shown ~> ~loadingScreen.shown

-----------------------------------------------------------------------------
(* The user's overrides *)

\* the path the editor's input of the specification changes
EditedPath == <<"heatDistortion", "enabled">>

\* the paths the overrides hold a value for
OverriddenPaths(overrides) ==
    { <<key, sub>> : key \in DOMAIN overrides \ {"enabled"},
                     sub \in {"enabled", "intensity"} } \cap
    { path \in (DOMAIN overrides \ {"enabled"}) \X {"enabled", "intensity"} :
        path[2] \in DOMAIN overrides[path[1]] }

\* the overrides without a path: the object it was the last value of goes too
WithoutPath(overrides, path) ==
    [ key \in { k \in DOMAIN overrides :
                  k = path[1] => DOMAIN overrides[k] \ {path[2]} # {} } |->
        IF key = path[1]
        THEN [ sub \in DOMAIN overrides[key] \ {path[2]} |-> overrides[key][sub] ]
        ELSE overrides[key] ]

\* C39: after every recordUserChange the overrides hold the path if and only if
\* the recorded value differs from the base value (module defaults merged with
\* the scene profile), isDirty is true exactly when some path is overridden,
\* and recording the base value leaves the overrides as they were without the
\* path, so that recording a value and then the base value restores them
C39_OverridesTrackLastValue ==
    [][ lastOp' = "HandleGenericInput" =>
          LET value == config'.heatDistortion.enabled
              baseValue == MergeObject(profile.moduleDefaults,
                                       profile.sceneProfile).heatDistortion.enabled
          IN  /\ (EditedPath \in OverriddenPaths(profile'.userOverrides))
                    <=> (value # baseValue)
              /\ IsDirty(profile')
                    <=> (OverriddenPaths(profile'.userOverrides) # {})
              /\ value = baseValue
                    => profile'.userOverrides =
                           WithoutPath(profile.userOverrides, EditedPath)
      ]_vars

-----------------------------------------------------------------------------
(* The sprite pool of the token mask *)

\* C40: after a renderMask the sprite pool holds a sprite for exactly the
\* tokens that are visible, have a valid texture and are not hidden; a token
\* drawn by two consecutive renders keeps its sprite, the sprites of the
\* tokens that left are destroyed, and no sprite in the pool is destroyed
C40_PoolFollowsTokens ==
    [][ ( lastOp' = "Tick" /\ tokenMask.created /\ tokenMask'.didRender ) =>
          LET old == tokenMask.tokenSprites
              new == tokenMask'.tokenSprites
          IN  /\ DOMAIN new = Drawable(tokens')
              /\ \A id \in DOMAIN old \cap DOMAIN new : new[id] = old[id]
              /\ \A id \in DOMAIN old \ DOMAIN new : old[id] \in tokenMask'.destroyed
              /\ \A id \in DOMAIN new : new[id] \notin tokenMask'.destroyed
      ]_vars

\* a render after which one token kept its sprite, another token's sprite was
\* destroyed and a later sprite was made
C40_Witness ==
    /\ lastOp = "Tick"
    /\ tokenMask.didRender
    /\ tokenMask.destroyed # {}
    /\ \E id \in DOMAIN tokenMask.tokenSprites :
          /\ tokenMask.tokenSprites[id] \notin tokenMask.destroyed
          /\ tokenMask.tokenSprites[id] < tokenMask.spawned

-----------------------------------------------------------------------------
(* The filters of the stage *)

\* the filters of a sequence
FilterSet(seq) == { seq[i] : i \in 1..Len(seq) }

\* the filters registered under the keys of ScreenEffectsManager
RegisteredFilters ==
    { screenEffects.filters[i].filter : i \in 1..Len(screenEffects.filters) }

\* C38: the stage's filter list consists of the filters other code has put
\* there, all of them and in their order, and of exactly one filter for every
\* registered key; a filter that was replaced or removed has been destroyed
\* exactly once and is not in the list
C38_StageFiltersAreConsistent ==
    LET stage == screenEffects.stage
        IsOther(f) == f.owner = "other"
        IsOwn(f) == f.owner = "mapShine"
    IN  /\ SelectSeq(stage, IsOther) = screenEffects.others
        /\ Len(SelectSeq(stage, IsOwn)) = Len(screenEffects.filters)
        /\ FilterSet(SelectSeq(stage, IsOwn)) = RegisteredFilters
        /\ \A i, j \in 1..Len(screenEffects.filters) :
               screenEffects.filters[i].key = screenEffects.filters[j].key => i = j
        /\ \A f \in DOMAIN screenEffects.destroyed :
               /\ screenEffects.destroyed[f] = 1
               /\ f \notin FilterSet(stage)
               /\ f \notin RegisteredFilters

-----------------------------------------------------------------------------
(* Overlapping refreshes and updateEffectTargets calls *)

\* no refresh is under way and the hooks have started one
AllRefreshesCompleted == inflight.refreshes = {} /\ inflight.started > 0

\* a sprite map of a layer
SpritesOf(layer, f) == IF layer = "cloud" THEN cloud[f] ELSE metallic[f]

\* no updateEffectTargets call of the layer waits
NoCallOf(layer) == \A c \in inflight.calls : c.layer # layer

\* C35: once all overlapping updateEffectTargets calls of a layer have
\* completed, each sprite map of the layer holds exactly the ids of the targets
\* supplied last that declare the layer's effect, and no call has assigned to
\* a sprite that another call had destroyed
C35_OverlappingCallsLeaveLastTargets ==
    \A layer \in DOMAIN inflight.supplied :
        NoCallOf(layer) =>
            /\ \A k \in 1..Len(LayerSlots(layer)) :
                   DOMAIN SpritesOf(layer, LayerSlots(layer)[k])
                       = ValidTargetIds(inflight.supplied[layer], LayerKey(layer))
            /\ ~inflight.wroteDestroyed

\* C36: when all overlapping refreshes have completed, targets is what
\* discovery finds for the tiles the scene has now
C36_LastRefreshWins ==
    AllRefreshesCompleted => targets = DiscoverAllTargets(scene)

\* C37: while no updateEffectTargets call of the metallic layer is in
\* progress, its shine, bloom and starburst maps have the same keys
C37_MetallicMapsHaveSameKeys ==
    NoCallOf("metallic") =>
        /\ DOMAIN metallic.shineSprites = DOMAIN metallic.bloomSprites
        /\ DOMAIN metallic.bloomSprites = DOMAIN metallic.starburstSprites

====
